---------------------------- MODULE Spec2Model ----------------------------
(***************************************************************************)
(* State-machine model of trdp/src/vos/windows/vos_winThread.c (TCNopen):  *)
(* the thread library, the cyclic scheduler, the recursive mutex and the   *)
(* counting semaphore, each on top of the Win32 primitive it calls.        *)
(*                                                                         *)
(* The Win32 calls (CreateThread, TerminateThread, WaitForSingleObject,    *)
(* ReleaseMutex, ReleaseSemaphore, CloseHandle, Sleep) are the environment *)
(* of the file; they are modelled by their documented behaviour on the     *)
(* native object state (nOwner/nDepth/nAbandoned, sCount, thr).            *)
(***************************************************************************)
EXTENDS Integers, FiniteSets, Sequences, TLC

(***************************************************************************)
(* Bounds of the model                                                     *)
(***************************************************************************)
NumThreads == 2
MaxDepth == 3
MaxCycles == 2
MaxGives == 3
MaxTimeOps == 2
MaxUuidCalls == 65540
\* MAX_SEM_COUNT is defined in vos_private.h; the model takes a small maximum
MAX_SEM_COUNT == 2

(***************************************************************************)
(* Program constants                                                       *)
(***************************************************************************)
cMutextMagic == 305397980
USECS_PER_MSEC == 1000
MSECS_PER_SEC == 1000
MAXSEC_FOR_USECPRESENTATION == 4293
MinDelay == 1000
PrioDivisor == 36
PrioTableLen == 7
MaxPriority == 255
USEC_PER_SEC == 1000000
VOS_SEMA_EMPTY == 0
VOS_SEMA_FULL == 1

Threads == 1..NumThreads

(***************************************************************************)
(* UINT32 values.  TLC's integers end at 2^31 - 1, so a UINT32 is held as  *)
(* [q, r], standing for q * 1000000 + r with 0 <= r < 1000000.             *)
(***************************************************************************)
BNorm(q, r) == [q |-> q + (r \div USEC_PER_SEC), r |-> r % USEC_PER_SEC]
Big(n) == BNorm(0, n)
BAdd(a, b) == BNorm(a.q + b.q, a.r + b.r)
BSub(a, b) == BNorm(a.q - b.q, a.r - b.r)
BLess(a, b) == (a.q < b.q) \/ (a.q = b.q /\ a.r < b.r)
\* 2^32 = 4294 * 1000000 + 967296
M32 == [q |-> 4294, r |-> 967296]
UINT32_MAX == BSub(M32, Big(1))

\* conversion to UINT32: the value modulo 2^32
RECURSIVE U32(_)
U32(a) ==
    IF a.q < 0 THEN U32(BAdd(a, M32))
    ELSE IF ~BLess(a, M32) THEN U32(BSub(a, M32))
    ELSE a

\* 2^31, the first UINT32 value that is negative when stored in a long
H31 == [q |-> 2147, r |-> 483648]

\* a * k for a small factor k (at most 2000)
BTimes(a, k) == BNorm(a.q * k, a.r * k)

\* a modulo 2^32, taking whole multiples of 2^32 off at a time
RECURSIVE Wrap32(_)
Wrap32(a) ==
    IF a.q < 0
    THEN LET n == IF (0 - a.q) \div (M32.q + 1) >= 2000 THEN 2000
                  ELSE ((0 - a.q) \div (M32.q + 1)) + 1
         IN  Wrap32(BAdd(a, BTimes(M32, n)))
    ELSE IF a.q > M32.q
    THEN LET n == IF a.q \div (M32.q + 1) >= 2000 THEN 2000 ELSE a.q \div (M32.q + 1)
         IN  Wrap32(BSub(a, BTimes(M32, n)))
    ELSE IF ~BLess(a, M32) THEN BSub(a, M32) ELSE a

\* the value a long holds after it is assigned a (two's complement, 32 bits)
S32(a) == LET u == Wrap32(a) IN IF BLess(u, H31) THEN u ELSE BSub(u, M32)

\* a long as a number of the model, and back
OfLong(n) == BNorm(0, n)
ToLong(a) == IF a.q < 0 THEN (a.q + 1) * USEC_PER_SEC + (a.r - USEC_PER_SEC)
             ELSE a.q * USEC_PER_SEC + a.r

\* a long converted to unsigned long
ToU(n) == Wrap32(OfLong(n))

\* x + y and x - y in long
Add32(x, y) == ToLong(S32(BAdd(OfLong(x), OfLong(y))))
Sub32(x, y) == ToLong(S32(BSub(OfLong(x), OfLong(y))))

\* a * k in unsigned long (a and k below 2^32), by the decimal digits of k
MulStep(a, acc, d) == Wrap32(BAdd(Wrap32(BTimes(acc, 1000)), Wrap32(BTimes(a, d))))
Mul32(a, k) ==
    MulStep(a, MulStep(a, MulStep(a, Wrap32(BTimes(a, k.q \div 1000)), k.q % 1000),
                          k.r \div 1000), k.r % 1000)

\* a / d and a % d in unsigned long (d > 0), one hexadecimal digit at a time
RECURSIVE DivMod(_, _)
DivMod(a, d) ==
    IF BLess(a, d) THEN [quo |-> Big(0), rem |-> a]
    ELSE LET h == DivMod(a, BTimes(d, 16))
             c == CHOOSE c \in 0..15 :
                     ~BLess(h.rem, BTimes(d, c)) /\ BLess(h.rem, BTimes(d, c + 1))
         IN  [quo |-> BAdd(BTimes(h.quo, 16), Big(c)), rem |-> BSub(h.rem, BTimes(d, c))]

VARIABLES
    vosThreadInitialised,   \* static BOOL8 vosThreadInitialised
    thr,                    \* native threads: handle -> "none" | "running" | "exited" | "terminated"
    pc,                     \* where each thread stands: "run" | "mutexWait" | "semaWait"
    tLast,                  \* the last thread-library call and what it returned
    mAlloc,                 \* *pMutex != NULL (storage of struct VOS_MUTEX exists)
    magicNo,                \* pMutex->magicNo
    nOpen,                  \* pMutex->mutexId is an open handle of a native mutex
    nOwner,                 \* native mutex: owning thread, 0 = not owned (signaled)
    nDepth,                 \* native mutex: recursion count of the owner
    nAbandoned,             \* native mutex: owner ended without releasing it
    held,                   \* per thread: lock/tryLock calls that returned VOS_NO_ERR, not yet unlocked
    mLast,                  \* the last mutex call and what it returned
    sAlloc,                 \* *pSema != NULL
    sOpen,                  \* (*pSema)->semaphore is an open handle of a native semaphore
    sCount,                 \* native semaphore count
    sInit,                  \* initial count given to CreateSemaphore
    sGives,                 \* successful releases since the semaphore was created
    sTakes,                 \* successful waits since the semaphore was created
    sLast,                  \* the last semaphore call and what it returned
    crashed,                \* the process took an access violation
    cPc,                    \* vos_cyclicThread: position in the loop body
    interval,               \* vos_cyclicThread: parameter interval
    priorCall,              \* vos_cyclicThread: local priorCall
    afterCall,              \* vos_cyclicThread: local afterCall (the difference after vos_subTime)
    execTime,               \* vos_cyclicThread: local execTime
    waitingTime,            \* vos_cyclicThread: local waitingTime
    cLog,                   \* vos_cyclicThread: what the current cycle logged
    cDelay,                 \* vos_cyclicThread: outcome of the cycle's vos_threadDelay
    calls,                  \* number of pFunction invocations
    cycles,                 \* number of completed loop iterations
    tmA,                    \* the VOS_TIMEVAL_T the time functions work on (*pTime)
    tmB,                    \* the second VOS_TIMEVAL_T operand (*pAdd, *pSub, *pCmp)
    tmK,                    \* the UINT32 operand (mul, divisor)
    tmOps,                  \* number of time-function calls made on tmA
    tmLast,                 \* the last time-function call and the one before it
    count,                  \* vos_getUuid: static UINT16 count
    uCalls,                 \* number of vos_getUuid calls of the process
    uMark,                  \* the identifier the first call of the process produced
    uLast,                  \* the identifier the last call produced
    gPc,                    \* per thread inside vos_getUuid: "idle" | "byte8" | "byte9" | "load" | "store" | "done"
    gId,                    \* per thread inside vos_getUuid: the bytes written to its pUuID so far
    gTmp,                   \* per thread inside vos_getUuid: the value of count read by count++
    gStart                  \* the value of count before the concurrent calls

thrVars == <<vosThreadInitialised, thr, pc, tLast>>
mtxVars == <<mAlloc, magicNo, nOpen, nOwner, nDepth, nAbandoned, held, mLast>>
semVars == <<sAlloc, sOpen, sCount, sInit, sGives, sTakes, sLast, crashed>>
cycVars == <<cPc, interval, priorCall, afterCall, execTime, waitingTime, cLog, cDelay, calls, cycles>>
timVars == <<tmA, tmB, tmK, tmOps, tmLast>>
genVars == <<gPc, gId, gTmp, gStart>>
uidVars == <<count, uCalls, uMark, uLast, genVars>>
vars == <<thrVars, mtxVars, semVars, cycVars, timVars, uidVars>>

(***************************************************************************)
(* Timers: vos_threadDelay, vos_getTime, vos_subTime                       *)
(***************************************************************************)

\* vos_threadDelay: return value
DelayRet(delay) == IF BLess(delay, Big(MinDelay)) THEN "VOS_PARAM_ERR" ELSE "VOS_NO_ERR"

\* vos_threadDelay: milliseconds handed to Sleep(), 0 when Sleep() is not called
DelaySleepMs(delay) ==
    IF BLess(delay, Big(MinDelay)) THEN 0
    ELSE delay.q * (USEC_PER_SEC \div USECS_PER_MSEC) + (delay.r \div USECS_PER_MSEC)

\* vos_threadDelay: the whole call
vos_threadDelay(delay) ==
    [ret |-> DelayRet(delay), sleepMs |-> DelaySleepMs(delay),
     warned |-> BLess(delay, Big(MinDelay))]

\* vos_getTime on a clock sample [ok, time, millitm] of _ftime32_s
vos_getTime(clk) ==
    IF clk.ok
    THEN [tv_sec |-> clk.time, tv_usec |-> clk.millitm * USECS_PER_MSEC]
    ELSE [tv_sec |-> 0, tv_usec |-> 0]

\* vos_subTime(pTime, pSub) on struct timeval (long tv_sec, long tv_usec)
vos_subTime_NoBorrow(t, s) ==
    [tv_sec |-> Sub32(t.tv_sec, s.tv_sec), tv_usec |-> Sub32(t.tv_usec, s.tv_usec)]

\* a subtraction that clamps a negative seconds field to 0
vos_subTime_Clamped(t, s) ==
    LET d == vos_subTime_NoBorrow(
                 IF s.tv_usec > t.tv_usec
                 THEN [tv_sec |-> Sub32(t.tv_sec, 1), tv_usec |-> Add32(t.tv_usec, USEC_PER_SEC)]
                 ELSE t, s)
    IN  [tv_sec |-> IF d.tv_sec < 0 THEN 0 ELSE d.tv_sec, tv_usec |-> d.tv_usec]

vos_subTime(t, s) ==
    LET borrow == s.tv_usec > t.tv_usec
        sec1   == IF borrow THEN Sub32(t.tv_sec, 1) ELSE t.tv_sec
        usec1  == IF borrow THEN Add32(t.tv_usec, USEC_PER_SEC) ELSE t.tv_usec
    IN  [tv_sec |-> Sub32(sec1, s.tv_sec), tv_usec |-> Sub32(usec1, s.tv_usec)]

(***************************************************************************)
(* Time arithmetic: vos_clearTime, vos_addTime, vos_mulTime, vos_divTime,  *)
(* vos_cmpTime on struct timeval, whose fields are 32-bit long             *)
(***************************************************************************)

MaxLong == 2147483647
MinLong == (0 - MaxLong) - 1

\* timerclear(pTime)
vos_clearTime(t) == [tv_sec |-> 0, tv_usec |-> 0]

\* while (pTime->tv_usec >= 1000000) { pTime->tv_sec++; pTime->tv_usec -= 1000000; }
CarryLoop(t) ==
    IF t.tv_usec >= USEC_PER_SEC
    THEN [tv_sec |-> Add32(t.tv_sec, t.tv_usec \div USEC_PER_SEC),
          tv_usec |-> t.tv_usec % USEC_PER_SEC]
    ELSE t

vos_addTime(t, a) ==
    CarryLoop([tv_sec |-> Add32(t.tv_sec, a.tv_sec), tv_usec |-> Add32(t.tv_usec, a.tv_usec)])

\* long *= UINT32: the product is formed in unsigned long and stored in the long
MulLong(x, mul) == ToLong(S32(Mul32(ToU(x), mul)))

vos_mulTime(t, mul) ==
    CarryLoop([tv_sec |-> MulLong(t.tv_sec, mul), tv_usec |-> MulLong(t.tv_usec, mul)])

\* a division that forgets the microseconds
vos_divTime_DropUsec(t, divisor) ==
    [tv_sec |-> ToLong(S32(DivMod(ToU(t.tv_sec), divisor).quo)), tv_usec |-> 0]

\* the else branch of vos_divTime (divisor # 0); %, / and += are unsigned long
vos_divTime(t, divisor) ==
    LET dm    == DivMod(ToU(t.tv_sec), divisor)
        temp  == dm.rem
        usec1 == IF BLess(Big(0), temp)
                 THEN ToLong(S32(BAdd(ToU(t.tv_usec), Mul32(temp, Big(USEC_PER_SEC)))))
                 ELSE t.tv_usec
    IN  [tv_sec |-> ToLong(S32(dm.quo)),
         tv_usec |-> ToLong(S32(DivMod(ToU(usec1), divisor).quo))]

\* timercmp(tvp, uvp, cmp)
timercmpGT(t, c) == t.tv_sec > c.tv_sec \/ (t.tv_sec = c.tv_sec /\ t.tv_usec > c.tv_usec)
timercmpLT(t, c) == t.tv_sec < c.tv_sec \/ (t.tv_sec = c.tv_sec /\ t.tv_usec < c.tv_usec)

\* a comparison that answers 1 for equal values
vos_cmpTime_GreaterOrEqual(t, c) == IF timercmpLT(t, c) THEN 0 - 1 ELSE 1

vos_cmpTime(t, c) ==
    IF timercmpGT(t, c) THEN 1
    ELSE IF timercmpLT(t, c) THEN 0 - 1
    ELSE 0

\* a VOS_TIMEVAL_T pointer that is NULL
NullTime == [null |-> TRUE]

TimeSecs == {MinLong, 0 - 1, 0, 7, MaxLong}
TimeUsecs == {0, 1, USEC_PER_SEC - 1}
\* what pTime can be: NULL or a well-formed time value
TimeVals == {[tv_sec |-> x, tv_usec |-> u] : x \in TimeSecs, u \in TimeUsecs} \cup {NullTime}
\* what pAdd, pSub and pCmp can be
TimeOperands ==
    {[tv_sec |-> 0 - 1, tv_usec |-> USEC_PER_SEC - 1], [tv_sec |-> 7, tv_usec |-> 0],
     [tv_sec |-> MaxLong, tv_usec |-> USEC_PER_SEC - 1], NullTime}
\* 0, 1, 3000 and 4294967295
Scalars == {Big(0), Big(1), Big(3000), UINT32_MAX}

\* microseconds in 0..999999
WellFormed(t) == t # NullTime /\ t.tv_usec >= 0 /\ t.tv_usec < USEC_PER_SEC

\* the record of a time-function call: the value it found, what it logged and
\* returned, and the name of the call before it
TmRec(op, log, ret) ==
    [op |-> op, a |-> tmA, log |-> log, ret |-> ret, pop |-> tmLast.op]

\* a time-function call on tmA: with a NULL pointer, or when it refuses its
\* parameter (skip), it only logs; else it rewrites *pTime with out
TimeCall(op, skip, out) ==
    /\ tmOps < MaxTimeOps
    /\ tmOps' = tmOps + 1
    /\ tmA' = IF tmA = NullTime \/ skip THEN tmA ELSE out
    /\ tmLast' = TmRec(op, IF tmA = NullTime \/ skip THEN "error" ELSE "none", 0)
    /\ UNCHANGED <<tmB, tmK>>
    /\ UNCHANGED <<thrVars, mtxVars, semVars, cycVars, uidVars>>

TimeClear == TimeCall("clear", FALSE, vos_clearTime(tmA))
TimeGet(clk) == TimeCall("getTime", FALSE, vos_getTime(clk))
TimeAdd == TimeCall("add", tmB = NullTime, vos_addTime(tmA, tmB))
TimeSub == TimeCall("sub", tmB = NullTime, vos_subTime(tmA, tmB))
TimeMul == TimeCall("mul", FALSE, vos_mulTime(tmA, tmK))

\* vos_divTime(pTime, divisor): if ((pTime == NULL) || (divisor == 0)) log, else divide
TimeDiv == TimeCall("div", tmK = Big(0), vos_divTime(tmA, tmK))

\* vos_cmpTime(pTime, pCmp)
TimeCmp ==
    /\ tmOps < MaxTimeOps
    /\ tmOps' = tmOps + 1
    /\ tmLast' = TmRec("cmp", "none",
                       IF tmA = NullTime \/ tmB = NullTime THEN 0 ELSE vos_cmpTime(tmA, tmB))
    /\ UNCHANGED <<tmA, tmB, tmK>>
    /\ UNCHANGED <<thrVars, mtxVars, semVars, cycVars, uidVars>>

(***************************************************************************)
(* Thread library                                                          *)
(***************************************************************************)

NULL == 0
\* value of the caller's VOS_THREAD_T variable that a call has not written
Untouched == 0 - 1

prioMap ==
    << "THREAD_PRIORITY_IDLE", "THREAD_PRIORITY_LOWEST", "THREAD_PRIORITY_BELOW_NORMAL",
       "THREAD_PRIORITY_NORMAL", "THREAD_PRIORITY_ABOVE_NORMAL", "THREAD_PRIORITY_HIGHEST",
       "THREAD_PRIORITY_TIME_CRITICAL" >>

NativeLevels == {prioMap[i] : i \in 1..PrioTableLen}

PrioInputs == 0..(MaxPriority + 1)
PrioSample == {0, 1, PrioDivisor - 1, PrioDivisor, MaxPriority, MaxPriority + 1}

\* vos_threadCreate: the subscript used on prioMap (a C array, first index 0)
PrioIndex(priority) == (priority \div PrioDivisor) - 1

\* a create that sets a native priority whatever the priority parameter is
PrioApplied_Always(priority) == TRUE

\* vos_threadCreate: whether SetThreadPriority is called at all
PrioApplied(priority) == (priority > 0) /\ (priority <= MaxPriority)

\* what prioMap[idx] reads: the table entry, or an arbitrary int outside the table
PrioRead(idx) ==
    IF idx \in 0..(PrioTableLen - 1) THEN {prioMap[idx + 1]}
    ELSE NativeLevels \cup {"invalid"}

\* the arguments a call record keeps: of vos_threadCreate the interval, whether
\* pThread and pName are NULL and whether policy is VOS_THREAD_POLICY_OTHER, of
\* vos_threadDelay the delay
NoArg == [ival |-> 0, pThreadNull |-> FALSE, pNameNull |-> FALSE, policyOther |-> TRUE,
          delay |-> Big(0)]

TRec(op, init, ret) ==
    [op |-> op, init |-> init, ret |-> ret, h |-> NULL, out |-> Untouched,
     prio |-> 0, idx |-> 0, level |-> "untouched", log |-> "none", sleepMs |-> 0,
     arg |-> NoArg]

\* the thread h ends (TerminateThread or return of the thread function): a native
\* mutex it owns becomes abandoned, and it no longer waits for anything
ThreadEnds(h, how) ==
    /\ thr' = [thr EXCEPT ![h] = how]
    /\ pc' = [pc EXCEPT ![h] = "run"]
    /\ nOwner' = IF nOwner = h THEN 0 ELSE nOwner
    /\ nDepth' = IF nOwner = h THEN 0 ELSE nDepth
    /\ nAbandoned' = IF nOwner = h THEN TRUE ELSE nAbandoned

FreeHandle == {h \in Threads : thr[h] = "none" /\ \A g \in Threads : thr[g] = "none" => h <= g}

\* a library whose entry points never look at the flag
NotInitialised_Never == FALSE

\* if (!vosThreadInitialised) return VOS_INIT_ERR;
NotInitialised == ~vosThreadInitialised

vos_threadInit ==
    /\ vosThreadInitialised' = TRUE
    /\ tLast' = TRec("init", vosThreadInitialised, "VOS_NO_ERR")
    /\ UNCHANGED <<thr, pc, mtxVars, semVars, cycVars, timVars, uidVars>>

vos_threadTerm ==
    /\ vosThreadInitialised' = FALSE
    /\ tLast' = TRec("term", vosThreadInitialised, "VOS_NO_ERR")
    /\ UNCHANGED <<thr, pc, mtxVars, semVars, cycVars, timVars, uidVars>>

IntervalRejected_Never(ival) == FALSE

\* vos_threadCreate: if (interval > 0)
IntervalRejected(ival) == ival > 0

\* vos_threadCreate(pThread, pName, policy, priority, interval, ...); spawn is the
\* handle CreateThread returns, NULL when it fails
vos_threadCreate(pThreadNull, pNameNull, policyOther, priority, ival, spawn) ==
    /\ UNCHANGED <<vosThreadInitialised, pc, mtxVars, semVars, cycVars, timVars, uidVars>>
    /\ LET arg == [NoArg EXCEPT !.ival = ival, !.pThreadNull = pThreadNull, !.pNameNull = pNameNull,
                                !.policyOther = policyOther]
           Rec(ret) == [TRec("create", vosThreadInitialised, ret) EXCEPT !.arg = arg]
       IN  IF NotInitialised
           THEN /\ tLast' = Rec("VOS_INIT_ERR")
                /\ thr' = thr
           ELSE IF pThreadNull \/ pNameNull
           THEN /\ tLast' = Rec("VOS_PARAM_ERR")
                /\ thr' = thr
           ELSE IF IntervalRejected(ival)
           THEN /\ tLast' = [Rec("VOS_INIT_ERR") EXCEPT !.out = NULL, !.log = "error"]
                /\ thr' = thr
           ELSE IF spawn = NULL
           THEN /\ tLast' = [Rec("VOS_THREAD_ERR") EXCEPT !.out = NULL, !.log = "error"]
                /\ thr' = thr
           ELSE /\ thr' = [thr EXCEPT ![spawn] = "running"]
                /\ \E level \in (IF PrioApplied(priority) THEN PrioRead(PrioIndex(priority))
                                                         ELSE {"untouched"}) :
                     tLast' = [Rec("VOS_NO_ERR") EXCEPT
                                 !.h = spawn, !.out = spawn, !.prio = priority,
                                 !.idx = IF PrioApplied(priority) THEN PrioIndex(priority) ELSE 0,
                                 !.level = level,
                                 !.log = IF policyOther THEN "none" ELSE "warning"]

\* vos_threadTerminate(thread); ok is the result of TerminateThread on a thread
\* that has already ended
vos_threadTerminate(h, ok) ==
    /\ UNCHANGED <<vosThreadInitialised, mAlloc, magicNo, nOpen, held, mLast, semVars, cycVars, timVars, uidVars>>
    /\ IF NotInitialised
       THEN /\ tLast' = [TRec("terminate", vosThreadInitialised, "VOS_INIT_ERR") EXCEPT !.h = h]
            /\ UNCHANGED <<thr, pc, nOwner, nDepth, nAbandoned>>
       ELSE IF h \in Threads /\ thr[h] = "running"
       THEN /\ tLast' = [TRec("terminate", vosThreadInitialised, "VOS_NO_ERR") EXCEPT !.h = h]
            /\ ThreadEnds(h, "terminated")
       ELSE IF h \in Threads /\ thr[h] # "none" /\ ok
       THEN /\ tLast' = [TRec("terminate", vosThreadInitialised, "VOS_NO_ERR") EXCEPT !.h = h]
            /\ UNCHANGED <<thr, pc, nOwner, nDepth, nAbandoned>>
       ELSE /\ tLast' = [TRec("terminate", vosThreadInitialised, "VOS_THREAD_ERR") EXCEPT !.h = h, !.log = "error"]
            /\ UNCHANGED <<thr, pc, nOwner, nDepth, nAbandoned>>

\* GetExitCodeThread succeeds on every handle CreateThread has returned: the file
\* never closes a thread handle
ExitCodeKnown(h) == h \in Threads /\ thr[h] # "none"

vos_threadIsActive(h) ==
    /\ UNCHANGED <<vosThreadInitialised, thr, pc, mtxVars, semVars, cycVars, timVars, uidVars>>
    /\ IF NotInitialised
       THEN tLast' = [TRec("isActive", vosThreadInitialised, "VOS_INIT_ERR") EXCEPT !.h = h]
       ELSE IF ~ExitCodeKnown(h)
       THEN tLast' = [TRec("isActive", vosThreadInitialised, "VOS_PARAM_ERR") EXCEPT !.h = h]
       ELSE tLast' = [TRec("isActive", vosThreadInitialised, "VOS_NO_ERR") EXCEPT !.h = h]

\* vos_threadSelf(pThread) called by thread t
vos_threadSelf(t, pThreadNull) ==
    /\ UNCHANGED <<vosThreadInitialised, thr, pc, mtxVars, semVars, cycVars, timVars, uidVars>>
    /\ IF pThreadNull
       THEN tLast' = TRec("self", vosThreadInitialised, "VOS_PARAM_ERR")
       ELSE tLast' = [TRec("self", vosThreadInitialised, "VOS_NO_ERR") EXCEPT !.out = t]

DelayInputs == {Big(0), Big(999), Big(1000), Big(1500), Big(7000), UINT32_MAX}

\* a call of vos_threadDelay(delay) from the application
ThreadDelay(delay) ==
    /\ UNCHANGED <<vosThreadInitialised, thr, pc, mtxVars, semVars, cycVars, timVars, uidVars>>
    /\ LET d == vos_threadDelay(delay)
       IN  tLast' = [TRec("delay", vosThreadInitialised, d.ret) EXCEPT
                       !.arg = [NoArg EXCEPT !.delay = delay],
                       !.sleepMs = d.sleepMs,
                       !.log = IF d.warned THEN "warning" ELSE "none"]

\* the thread function of h returns
ThreadExit(h) ==
    /\ thr[h] = "running"
    /\ ThreadEnds(h, "exited")
    /\ tLast' = [TRec("exit", vosThreadInitialised, "VOS_NO_ERR") EXCEPT !.h = h]
    /\ UNCHANGED <<vosThreadInitialised, mAlloc, magicNo, nOpen, held, mLast, semVars, cycVars, timVars, uidVars>>

(***************************************************************************)
(* Cyclic scheduler: vos_cyclicThread                                      *)
(***************************************************************************)

ClockSecs == {100, 101, 4393, 4394}
ClockMillis == {0, 3, 15, 999}

\* what _ftime32_s can deliver: a wall-clock sample, or a failure
Clocks ==
    {[ok |-> TRUE, time |-> s, millitm |-> m] : s \in ClockSecs, m \in ClockMillis}
        \cup {[ok |-> FALSE, time |-> 0, millitm |-> 0]}

\* 0, 3500, 10000, 4294000000 and 4294967295 microseconds
Intervals == {Big(0), Big(3500), Big(10000), [q |-> 4294, r |-> 0], UINT32_MAX}

\* execTime = ((afterCall.tv_sec * MSECS_PER_SEC * USECS_PER_MSEC) + (UINT32)afterCall.tv_usec)
\* (UINT32 arithmetic: the long tv_sec is converted to unsigned, the sum wraps)
ExecTimeOf(el) ==
    U32(BNorm(el.tv_sec * ((MSECS_PER_SEC * USECS_PER_MSEC) \div USEC_PER_SEC), el.tv_usec))

\* a loop that never takes the overrun branch
IsOverrun_Never(ival, e) == FALSE

\* if (execTime > interval)
IsOverrun(ival, e) == BLess(ival, e)

\* a loop that waits the whole interval, whatever the runtime was
WaitFor_NoComp(ival, e) == ival

\* waitingTime = interval - execTime;
WaitFor(ival, e) == U32(BSub(ival, e))

\* a loop that never takes the out-of-range branch
InRange_Always(el) == TRUE

\* if (afterCall.tv_sec <= MAXSEC_FOR_USECPRESENTATION)
InRange(el) == el.tv_sec <= MAXSEC_FOR_USECPRESENTATION

\* the if/else of the loop body: the new execTime, waitingTime and what is logged
CycCompute(ival, el, oldExec) ==
    IF InRange(el)
    THEN LET e == ExecTimeOf(el)
         IN  IF IsOverrun(ival, e)
             THEN [execTime |-> e, waitingTime |-> Big(0), log |-> "overrun"]
             ELSE [execTime |-> e, waitingTime |-> WaitFor(ival, e), log |-> "none"]
    ELSE [execTime |-> oldExec, waitingTime |-> Big(0), log |-> "range"]

NoDelay == [ret |-> "none", sleepMs |-> 0, warned |-> FALSE]
ZeroTime == [tv_sec |-> 0, tv_usec |-> 0]

\* vos_getTime(&priorCall)
CycGetPrior ==
    /\ cPc = "prior"
    /\ cycles < MaxCycles
    /\ \E clk \in Clocks : priorCall' = vos_getTime(clk)
    /\ cLog' = "none"
    /\ cPc' = "call"
    /\ UNCHANGED <<interval, afterCall, execTime, waitingTime, cDelay, calls, cycles>>
    /\ UNCHANGED <<thrVars, mtxVars, semVars, timVars, uidVars>>

\* pFunction(pArguments)
CycCall ==
    /\ cPc = "call"
    /\ calls' = calls + 1
    /\ cPc' = "after"
    /\ UNCHANGED <<interval, priorCall, afterCall, execTime, waitingTime, cLog, cDelay, cycles>>
    /\ UNCHANGED <<thrVars, mtxVars, semVars, timVars, uidVars>>

\* vos_getTime(&afterCall); vos_subTime(&afterCall, &priorCall); the if/else
CycMeasure ==
    /\ cPc = "after"
    /\ \E clk \in Clocks :
         LET el == vos_subTime(vos_getTime(clk), priorCall)
             r  == CycCompute(interval, el, execTime)
         IN  /\ afterCall' = el
             /\ execTime' = r.execTime
             /\ waitingTime' = r.waitingTime
             /\ cLog' = r.log
    /\ cPc' = "delay"
    /\ UNCHANGED <<interval, priorCall, cDelay, calls, cycles>>
    /\ UNCHANGED <<thrVars, mtxVars, semVars, timVars, uidVars>>

\* (void) vos_threadDelay(waitingTime); and the loop starts over
CycDelay ==
    /\ cPc = "delay"
    /\ cDelay' = vos_threadDelay(waitingTime)
    /\ cycles' = cycles + 1
    /\ cPc' = "prior"
    /\ UNCHANGED <<interval, priorCall, afterCall, execTime, waitingTime, cLog, calls>>
    /\ UNCHANGED <<thrVars, mtxVars, semVars, timVars, uidVars>>

(***************************************************************************)
(* Mutex                                                                   *)
(***************************************************************************)

\* the record of a mutex call (pre, post: the native owner before and after the call)
MRec(op, t, ret, nat) ==
    [op |-> op, t |-> t, ret |-> ret, nat |-> nat, pre |-> 0, post |-> 0]

\* the check every mutex call starts with: pMutex == NULL || pMutex->magicNo != cMutextMagic
\* (the caller's handle is NULL as long as no storage has been allocated)
MutexInvalid_NullOnly(null) == null \/ ~mAlloc

MutexInvalid(null) == null \/ ~mAlloc \/ magicNo # cMutextMagic

\* WaitForSingleObject on the native mutex by thread t, when it does not have to wait
NativeWait(t) ==
    IF ~nOpen THEN [res |-> "WAIT_FAILED", owner |-> nOwner, depth |-> nDepth]
    ELSE IF nOwner = 0 /\ nAbandoned THEN [res |-> "WAIT_ABANDONED", owner |-> t, depth |-> 1]
    ELSE IF nOwner = 0 THEN [res |-> "WAIT_OBJECT_0", owner |-> t, depth |-> 1]
    ELSE IF nOwner = t THEN [res |-> "WAIT_OBJECT_0", owner |-> t, depth |-> nDepth + 1]
    ELSE [res |-> "WAIT_TIMEOUT", owner |-> nOwner, depth |-> nDepth]

\* vos_mutexLock: dwWaitResult != WAIT_OBJECT_0
LockRet(res) == IF res # "WAIT_OBJECT_0" THEN "VOS_MUTEX_ERR" ELSE "VOS_NO_ERR"

\* mutant: a wait that timed out is reported as success
TryLockRet_TimeoutOk(res) ==
    CASE res \in {"WAIT_OBJECT_0", "WAIT_TIMEOUT"} -> "VOS_NO_ERR"
      [] res = "WAIT_ABANDONED" -> "VOS_INUSE_ERR"
      [] OTHER -> "VOS_MUTEX_ERR"

\* vos_mutexTryLock: switch (dwWaitResult)
TryLockRet(res) ==
    CASE res = "WAIT_OBJECT_0" -> "VOS_NO_ERR"
      [] res = "WAIT_FAILED" -> "VOS_MUTEX_ERR"
      [] res \in {"WAIT_TIMEOUT", "WAIT_ABANDONED"} -> "VOS_INUSE_ERR"
      [] OTHER -> "VOS_MUTEX_ERR"

\* mutant: the result of ReleaseMutex is tested the wrong way round
UnlockRet_Inverted(released) == IF released THEN "VOS_MUTEX_ERR" ELSE "VOS_NO_ERR"

\* vos_mutexUnlock: ReleaseMutex() == 0
UnlockRet(released) == IF ~released THEN "VOS_MUTEX_ERR" ELSE "VOS_NO_ERR"

\* the native wait of thread t has returned w, and the call returns ret
Acquired(t, op, w, ret) ==
    /\ nOwner' = w.owner
    /\ nDepth' = w.depth
    /\ nAbandoned' = IF w.res = "WAIT_ABANDONED" THEN FALSE ELSE nAbandoned
    /\ held' = IF ret = "VOS_NO_ERR" THEN [held EXCEPT ![t] = @ + 1] ELSE held
    /\ mLast' = [MRec(op, t, ret, w.res) EXCEPT !.pre = nOwner, !.post = w.owner]

\* threads waiting for a native mutex whose handle is closed or overwritten
\* can no longer get it
Strand == [t \in Threads |-> IF pc[t] = "mutexWait" THEN "stuck" ELSE pc[t]]

MutexCreateRet_IgnoreNative(pMutexNull, allocFailed, nativeOk) ==
    IF pMutexNull THEN "VOS_PARAM_ERR"
    ELSE IF allocFailed THEN "VOS_MEM_ERR"
    ELSE "VOS_NO_ERR"

\* vos_mutexCreate: the return value (allocFailed: *pMutex is still NULL after
\* the attempt to allocate it; nativeOk: CreateMutex returned a handle)
MutexCreateRet(pMutexNull, allocFailed, nativeOk) ==
    IF pMutexNull THEN "VOS_PARAM_ERR"
    ELSE IF allocFailed THEN "VOS_MEM_ERR"
    ELSE IF ~nativeOk THEN "VOS_MUTEX_ERR"
    ELSE "VOS_NO_ERR"

vos_mutexCreate(pMutexNull, allocOk, nativeOk) ==
    /\ UNCHANGED <<vosThreadInitialised, thr, tLast, semVars, cycVars, timVars, uidVars>>
    /\ LET ret == MutexCreateRet(pMutexNull, ~mAlloc /\ ~allocOk, nativeOk)
       IN  /\ mLast' = MRec("create", 0, ret, "none")
           /\ IF ret \in {"VOS_PARAM_ERR", "VOS_MEM_ERR"}
              THEN UNCHANGED <<mAlloc, magicNo, nOpen, nOwner, nDepth, nAbandoned, held, pc>>
              ELSE IF ret = "VOS_MUTEX_ERR"
              THEN /\ mAlloc' = TRUE
                   /\ UNCHANGED <<magicNo, nOpen, nOwner, nDepth, nAbandoned, held, pc>>
              ELSE /\ mAlloc' = TRUE
                   /\ magicNo' = cMutextMagic
                   /\ nOpen' = nativeOk
                   /\ nOwner' = 0
                   /\ nDepth' = 0
                   /\ nAbandoned' = FALSE
                   /\ held' = [t \in Threads |-> 0]
                   /\ pc' = Strand

TagAfterClose_Kept(closed) == magicNo

\* vos_mutexDelete: if (CloseHandle(pMutex->mutexId) != 0) pMutex->magicNo = 0;
TagAfterClose(closed) == IF closed THEN 0 ELSE magicNo

vos_mutexDelete(null) ==
    /\ UNCHANGED <<vosThreadInitialised, thr, tLast, semVars, cycVars, timVars, uidVars>>
    /\ UNCHANGED <<mAlloc, nOwner, nDepth, nAbandoned, held>>
    /\ IF MutexInvalid(null)
       THEN /\ mLast' = MRec("delete", 0, "VOS_PARAM_ERR", "none")
            /\ UNCHANGED <<magicNo, nOpen, pc>>
       ELSE IF nOpen
       THEN /\ mLast' = MRec("delete", 0, "VOS_NO_ERR", "closed")
            /\ magicNo' = TagAfterClose(nOpen)
            /\ nOpen' = FALSE
            /\ pc' = Strand
       ELSE /\ mLast' = MRec("delete", 0, "VOS_MUTEX_ERR", "close failed")
            /\ UNCHANGED <<magicNo, nOpen, pc>>

vos_mutexLock(t, null) ==
    /\ thr[t] = "running" /\ pc[t] = "run"
    /\ UNCHANGED <<vosThreadInitialised, thr, tLast, semVars, cycVars, timVars, uidVars>>
    /\ UNCHANGED <<mAlloc, magicNo, nOpen>>
    /\ IF MutexInvalid(null)
       THEN /\ mLast' = [MRec("lock", t, "VOS_PARAM_ERR", "none") EXCEPT !.pre = nOwner, !.post = nOwner]
            /\ UNCHANGED <<nOwner, nDepth, nAbandoned, held, pc>>
       ELSE LET w == NativeWait(t)
            IN  IF w.res = "WAIT_TIMEOUT"
                THEN /\ pc' = [pc EXCEPT ![t] = "mutexWait"]
                     /\ mLast' = [MRec("lockWait", t, "none", "none") EXCEPT !.pre = nOwner, !.post = nOwner]
                     /\ UNCHANGED <<nOwner, nDepth, nAbandoned, held>>
                ELSE /\ w.depth <= MaxDepth
                     /\ Acquired(t, "lock", w, LockRet(w.res))
                     /\ pc' = pc

\* the INFINITE wait of vos_mutexLock ends
LockWake(t) ==
    /\ thr[t] = "running" /\ pc[t] = "mutexWait"
    /\ nOwner = 0
    /\ UNCHANGED <<vosThreadInitialised, thr, tLast, semVars, cycVars, timVars, uidVars>>
    /\ UNCHANGED <<mAlloc, magicNo, nOpen>>
    /\ LET w == NativeWait(t) IN Acquired(t, "lock", w, LockRet(w.res))
    /\ pc' = [pc EXCEPT ![t] = "run"]

vos_mutexTryLock(t, null) ==
    /\ thr[t] = "running" /\ pc[t] = "run"
    /\ UNCHANGED <<vosThreadInitialised, thr, pc, tLast, semVars, cycVars, timVars, uidVars>>
    /\ UNCHANGED <<mAlloc, magicNo, nOpen>>
    /\ IF MutexInvalid(null)
       THEN /\ mLast' = [MRec("tryLock", t, "VOS_PARAM_ERR", "none") EXCEPT !.pre = nOwner, !.post = nOwner]
            /\ UNCHANGED <<nOwner, nDepth, nAbandoned, held>>
       ELSE LET w == NativeWait(t)
            IN  /\ w.depth <= MaxDepth
                /\ Acquired(t, "tryLock", w, TryLockRet(w.res))

ReleaseMutexOk_AnyThread(t) == nOpen /\ nOwner # 0

\* ReleaseMutex(pMutex->mutexId) by thread t: nonzero iff t owns the native mutex
ReleaseMutexOk(t) == nOpen /\ nOwner = t

vos_mutexUnlock(t, null) ==
    /\ thr[t] = "running" /\ pc[t] = "run"
    /\ UNCHANGED <<vosThreadInitialised, thr, pc, tLast, semVars, cycVars, timVars, uidVars>>
    /\ UNCHANGED <<mAlloc, magicNo, nOpen, nAbandoned>>
    /\ IF MutexInvalid(null)
       THEN /\ mLast' = [MRec("unlock", t, "VOS_PARAM_ERR", "none") EXCEPT !.pre = nOwner, !.post = nOwner]
            /\ UNCHANGED <<nOwner, nDepth, held>>
       ELSE LET released == ReleaseMutexOk(t)
                ret == UnlockRet(released)
                owner == IF released /\ nDepth = 1 THEN 0 ELSE nOwner
            IN  /\ mLast' = [MRec("unlock", t, ret, IF released THEN "released" ELSE "release failed")
                               EXCEPT !.pre = nOwner, !.post = owner]
                /\ nDepth' = IF released THEN nDepth - 1 ELSE nDepth
                /\ nOwner' = owner
                /\ held' = IF ret = "VOS_NO_ERR" /\ held[t] > 0
                           THEN [held EXCEPT ![t] = @ - 1] ELSE held

(***************************************************************************)
(* Semaphore                                                               *)
(***************************************************************************)

\* the record of a semaphore call (pre: the count before the call)
SRec(op, ret) ==
    [op |-> op, ret |-> ret, null |-> FALSE, timeout |-> 0, pre |-> 0,
     waited |-> FALSE, deref |-> FALSE, log |-> "none"]

SemaStates == {VOS_SEMA_EMPTY, VOS_SEMA_FULL, VOS_SEMA_FULL + 1}
Timeouts == {0, 999, 5000}

\* threads waiting for a native semaphore whose handle is closed or overwritten
SemaStrand == [t \in Threads |-> IF pc[t] = "semaWait" THEN "semaWaitOld" ELSE pc[t]]

InitialCount_Max(initialState) == IF initialState = VOS_SEMA_FULL THEN MAX_SEM_COUNT ELSE 0

\* vos_semaCreate: the initial count handed to CreateSemaphore is initialState itself
InitialCount(initialState) == initialState

StateRejected_Never(initialState) == FALSE

\* vos_semaCreate: (initialState != VOS_SEMA_EMPTY) && (initialState != VOS_SEMA_FULL)
StateRejected(initialState) == initialState # VOS_SEMA_EMPTY /\ initialState # VOS_SEMA_FULL

vos_semaCreate(pSemaNull, initialState, allocOk, nativeOk) ==
    /\ ~crashed
    /\ UNCHANGED <<vosThreadInitialised, thr, tLast, mtxVars, cycVars, timVars, uidVars, crashed>>
    /\ IF pSemaNull \/ StateRejected(initialState)
       THEN /\ sLast' = [SRec("create", "VOS_PARAM_ERR") EXCEPT !.log = "error", !.pre = initialState,
                                                               !.null = pSemaNull]
            /\ UNCHANGED <<sAlloc, sOpen, sCount, sInit, sGives, sTakes, pc>>
       ELSE IF ~sAlloc /\ ~allocOk
       THEN /\ sLast' = [SRec("create", "VOS_MEM_ERR") EXCEPT !.pre = initialState]
            /\ UNCHANGED <<sAlloc, sOpen, sCount, sInit, sGives, sTakes, pc>>
       ELSE IF ~nativeOk
       THEN /\ sLast' = [SRec("create", "VOS_SEMA_ERR") EXCEPT !.log = "error", !.pre = initialState]
            /\ sAlloc' = TRUE
            /\ sOpen' = FALSE
            /\ pc' = SemaStrand
            /\ UNCHANGED <<sCount, sInit, sGives, sTakes>>
       ELSE /\ sLast' = [SRec("create", "VOS_NO_ERR") EXCEPT !.pre = initialState]
            /\ sAlloc' = TRUE
            /\ sOpen' = TRUE
            /\ sCount' = InitialCount(initialState)
            /\ sInit' = InitialCount(initialState)
            /\ sGives' = 0
            /\ sTakes' = 0
            /\ pc' = SemaStrand

vos_semaDelete(null) ==
    /\ ~crashed
    /\ UNCHANGED <<vosThreadInitialised, thr, tLast, mtxVars, cycVars, timVars, uidVars, crashed>>
    /\ UNCHANGED <<sAlloc, sCount, sInit, sGives, sTakes>>
    /\ IF null \/ ~sAlloc
       THEN /\ sLast' = [SRec("delete", "none") EXCEPT !.null = TRUE, !.log = "error"]
            /\ UNCHANGED <<sOpen, pc>>
       ELSE /\ sLast' = SRec("delete", "none")
            /\ sOpen' = FALSE
            /\ pc' = SemaStrand

\* a switch that takes the end of the waiting time for an acquisition
TakeRet_TimeoutOk(res, retVal) ==
    CASE res = "WAIT_OBJECT_0" -> "VOS_NO_ERR"
      [] res = "WAIT_TIMEOUT" -> "VOS_NO_ERR"
      [] res = "WAIT_FAILED" -> "VOS_SEMA_ERR"
      [] OTHER -> retVal

\* vos_semaTake: switch (dwWaitResult), retVal being what the function holds before it
TakeRet(res, retVal) ==
    CASE res = "WAIT_OBJECT_0" -> "VOS_NO_ERR"
      [] res = "WAIT_FAILED" -> "VOS_SEMA_ERR"
      [] OTHER -> retVal

\* vos_semaTake(sema, timeout) by thread t.  With sema == NULL the function sets
\* retVal and goes on to read sema->semaphore: the read of address 0 either ends
\* the process or delivers some handle value, on which the wait can end either way
vos_semaTake(t, null, timeout) ==
    /\ ~crashed
    /\ thr[t] = "running" /\ pc[t] = "run"
    /\ UNCHANGED <<vosThreadInitialised, thr, tLast, mtxVars, cycVars, timVars, uidVars>>
    /\ UNCHANGED <<sAlloc, sOpen, sInit, sGives>>
    /\ IF null \/ ~sAlloc
       THEN /\ UNCHANGED <<sCount, sTakes, pc>>
            /\ \/ /\ crashed' = TRUE
                  /\ sLast' = [SRec("take", "none") EXCEPT
                                 !.null = TRUE, !.timeout = timeout, !.deref = TRUE, !.log = "error"]
               \/ /\ crashed' = FALSE
                  /\ \E res \in {"WAIT_OBJECT_0", "WAIT_FAILED", "WAIT_TIMEOUT"} :
                       sLast' = [SRec("take", TakeRet(res, "VOS_NOINIT_ERR")) EXCEPT
                                   !.null = TRUE, !.timeout = timeout, !.deref = TRUE, !.log = "error"]
       ELSE /\ crashed' = crashed
            /\ IF ~sOpen
               THEN /\ sLast' = [SRec("take", TakeRet("WAIT_FAILED", "VOS_SEMA_ERR")) EXCEPT
                                   !.timeout = timeout, !.pre = sCount, !.deref = TRUE, !.log = "error"]
                    /\ UNCHANGED <<sCount, sTakes, pc>>
               ELSE IF sCount > 0
               THEN /\ sLast' = [SRec("take", TakeRet("WAIT_OBJECT_0", "VOS_SEMA_ERR")) EXCEPT
                                   !.timeout = timeout, !.pre = sCount, !.deref = TRUE]
                    /\ sCount' = sCount - 1
                    /\ sTakes' = sTakes + 1
                    /\ pc' = pc
               ELSE IF timeout \div USECS_PER_MSEC = 0
               THEN /\ sLast' = [SRec("take", TakeRet("WAIT_TIMEOUT", "VOS_SEMA_ERR")) EXCEPT
                                   !.timeout = timeout, !.pre = sCount, !.deref = TRUE]
                    /\ UNCHANGED <<sCount, sTakes, pc>>
               ELSE /\ sLast' = [SRec("takeWait", "none") EXCEPT
                                   !.timeout = timeout, !.pre = sCount, !.deref = TRUE]
                    /\ pc' = [pc EXCEPT ![t] = "semaWait"]
                    /\ UNCHANGED <<sCount, sTakes>>

\* the wait of vos_semaTake ends because the semaphore was released
TakeWake(t) ==
    /\ ~crashed
    /\ thr[t] = "running" /\ pc[t] = "semaWait"
    /\ sOpen /\ sCount > 0
    /\ sLast' = [SRec("take", TakeRet("WAIT_OBJECT_0", "VOS_SEMA_ERR")) EXCEPT
                   !.timeout = USECS_PER_MSEC, !.pre = sCount, !.deref = TRUE, !.waited = TRUE]
    /\ sCount' = sCount - 1
    /\ sTakes' = sTakes + 1
    /\ pc' = [pc EXCEPT ![t] = "run"]
    /\ UNCHANGED <<vosThreadInitialised, thr, tLast, mtxVars, cycVars, timVars, uidVars>>
    /\ UNCHANGED <<sAlloc, sOpen, sInit, sGives, crashed>>

\* the wait of vos_semaTake ends because the time is up: the native semaphore the
\* thread waits for (the current one, or an earlier one nobody can release any
\* more) has count 0 at that moment
TakeTimeout(t) ==
    /\ ~crashed
    /\ thr[t] = "running"
    /\ \/ pc[t] = "semaWait" /\ sCount = 0
       \/ pc[t] = "semaWaitOld"
    /\ sLast' = [SRec("take", TakeRet("WAIT_TIMEOUT", "VOS_SEMA_ERR")) EXCEPT
                   !.timeout = USECS_PER_MSEC, !.pre = 0, !.deref = TRUE, !.waited = TRUE]
    /\ pc' = [pc EXCEPT ![t] = "run"]
    /\ UNCHANGED <<vosThreadInitialised, thr, tLast, mtxVars, cycVars, timVars, uidVars>>
    /\ UNCHANGED <<sAlloc, sOpen, sCount, sInit, sGives, sTakes, crashed>>

ReleaseOk_Unbounded == sOpen

\* ReleaseSemaphore(h, 1, &previousCount): nonzero iff the count went up by one
ReleaseOk == sOpen /\ sCount < MAX_SEM_COUNT

\* vos_semaGive: the error is logged in the else branch of "ReleaseSemaphore() == 0"
GiveLog(released) == IF released THEN "error" ELSE "none"

vos_semaGive(null) ==
    /\ ~crashed
    /\ sGives < MaxGives
    /\ UNCHANGED <<vosThreadInitialised, thr, pc, tLast, mtxVars, cycVars, timVars, uidVars, crashed>>
    /\ UNCHANGED <<sAlloc, sOpen, sInit, sTakes>>
    /\ IF null \/ ~sAlloc
       THEN /\ sLast' = [SRec("give", "none") EXCEPT !.null = TRUE, !.log = "error"]
            /\ UNCHANGED <<sCount, sGives>>
       ELSE /\ sLast' = [SRec("give", "none") EXCEPT !.pre = sCount, !.deref = TRUE,
                                                     !.log = GiveLog(ReleaseOk)]
            /\ sCount' = IF ReleaseOk THEN sCount + 1 ELSE sCount
            /\ sGives' = IF ReleaseOk THEN sGives + 1 ELSE sGives

(***************************************************************************)
(* Identifier generator: vos_getUuid                                       *)
(***************************************************************************)

UINT16_MOD == 65536
BYTE_MOD == 256

\* n | 0x4 for a 4-bit n
OrFour(n) == IF (n \div 4) % 2 = 1 THEN n ELSE n + 4

\* the 16 bytes written for the time cur, the counter c and the hardware address mac:
\* bytes 0..3 tv_usec, bytes 4..6 tv_sec bits 0..23, byte 7 tv_sec bits 24..27 | 4,
\* bytes 8..9 the counter (low byte first), bytes 10..15 the address
UuidOf(cur, c, mac) ==
    [b0_3 |-> cur.tv_usec,
     b4_6 |-> cur.tv_sec % (BYTE_MOD * UINT16_MOD),
     b7   |-> OrFour((cur.tv_sec \div (BYTE_MOD * UINT16_MOD)) % 16),
     b8   |-> c % BYTE_MOD,
     b9   |-> c \div BYTE_MOD,
     mac  |-> mac]

NoUuid == UuidOf(ZeroTime, 0, "none")

NextCount_Stuck(c) == c

\* count++ on the static UINT16
NextCount(c) == (c + 1) % UINT16_MOD

\* the clock samples of the generator: calls within one millisecond, or a second apart
UuidClocks == {c \in Clocks : c.ok /\ c.millitm = 3 /\ c.time <= 101}

\* vos_getUuid(pUuID); clk is what the clock delivers, macOk whether vos_sockGetMAC
\* succeeds (when it fails, bytes 10..15 stay as the caller left them)
vos_getUuid(clk, macOk) ==
    /\ uCalls < MaxUuidCalls
    /\ LET id == UuidOf(vos_getTime(clk), count, IF macOk THEN "hw" ELSE "unset")
       IN  /\ uLast' = [id |-> id, log |-> IF macOk THEN "none" ELSE "error"]
           /\ uMark' = IF uCalls = 0 THEN id ELSE uMark
    /\ count' = NextCount(count)
    /\ uCalls' = uCalls + 1
    /\ UNCHANGED <<thrVars, mtxVars, semVars, cycVars, timVars, genVars>>

\* vos_getUuid called by several threads at once.  count is a static variable
\* that the function reads and writes without any lock, so the statements of
\* the callers interleave: each of lines 647, 648 reads count, and count++ (649)
\* is a read followed by a write

\* lines 635-644: the time is read and bytes 0..7 are written
GenEnter(t, clk) ==
    /\ thr[t] = "running" /\ gPc[t] = "idle"
    /\ gPc' = [gPc EXCEPT ![t] = "byte8"]
    /\ gId' = [gId EXCEPT ![t] = UuidOf(vos_getTime(clk), 0, "hw")]
    /\ UNCHANGED <<thrVars, mtxVars, semVars, cycVars, timVars>>
    /\ UNCHANGED <<count, uCalls, uMark, uLast, gTmp, gStart>>

\* line 647: pUuID[8] = (UINT8) (count & 0xFF)
GenByte8(t) ==
    /\ thr[t] = "running" /\ gPc[t] = "byte8"
    /\ gPc' = [gPc EXCEPT ![t] = "byte9"]
    /\ gId' = [gId EXCEPT ![t].b8 = UuidOf(ZeroTime, count, "hw").b8]
    /\ UNCHANGED <<thrVars, mtxVars, semVars, cycVars, timVars>>
    /\ UNCHANGED <<count, uCalls, uMark, uLast, gTmp, gStart>>

\* line 648: pUuID[9] = (UINT8) (count >> 8)
GenByte9(t) ==
    /\ thr[t] = "running" /\ gPc[t] = "byte9"
    /\ gPc' = [gPc EXCEPT ![t] = "load"]
    /\ gId' = [gId EXCEPT ![t].b9 = UuidOf(ZeroTime, count, "hw").b9]
    /\ UNCHANGED <<thrVars, mtxVars, semVars, cycVars, timVars>>
    /\ UNCHANGED <<count, uCalls, uMark, uLast, gTmp, gStart>>

\* line 649, count++: the value of count is read
GenLoad(t) ==
    /\ thr[t] = "running" /\ gPc[t] = "load"
    /\ gPc' = [gPc EXCEPT ![t] = "store"]
    /\ gTmp' = [gTmp EXCEPT ![t] = count]
    /\ UNCHANGED <<thrVars, mtxVars, semVars, cycVars, timVars>>
    /\ UNCHANGED <<count, uCalls, uMark, uLast, gId, gStart>>

\* line 649, count++: the incremented value is written back; lines 652-656 follow
GenStore(t) ==
    /\ thr[t] = "running" /\ gPc[t] = "store"
    /\ gPc' = [gPc EXCEPT ![t] = "done"]
    /\ count' = NextCount(gTmp[t])
    /\ UNCHANGED <<thrVars, mtxVars, semVars, cycVars, timVars>>
    /\ UNCHANGED <<uCalls, uMark, uLast, gId, gTmp, gStart>>

(***************************************************************************)
(* Initial states                                                          *)
(***************************************************************************)

\* the module before vos_threadInit: no thread has been created
InitThr ==
    /\ vosThreadInitialised = FALSE
    /\ thr = [h \in Threads |-> "none"]
    /\ pc = [h \in Threads |-> "run"]
    /\ tLast = TRec("none", FALSE, "VOS_NO_ERR")

\* after vos_threadInit and one successful vos_threadCreate per thread
InitThrRunning ==
    /\ vosThreadInitialised = TRUE
    /\ thr = [h \in Threads |-> "running"]
    /\ pc = [h \in Threads |-> "run"]
    /\ tLast = TRec("none", TRUE, "VOS_NO_ERR")

\* VOS_MUTEX_T mutex = NULL
InitMtx ==
    /\ mAlloc = FALSE
    /\ magicNo = 0
    /\ nOpen = FALSE
    /\ nOwner = 0
    /\ nDepth = 0
    /\ nAbandoned = FALSE
    /\ held = [t \in Threads |-> 0]
    /\ mLast = MRec("none", 0, "VOS_NO_ERR", "none")

\* VOS_SEMA_T sema = NULL
InitSem ==
    /\ sAlloc = FALSE
    /\ sOpen = FALSE
    /\ sCount = 0
    /\ sInit = 0
    /\ sGives = 0
    /\ sTakes = 0
    /\ sLast = SRec("none", "VOS_NO_ERR")
    /\ crashed = FALSE

\* entry of vos_cyclicThread(interval, pFunction, pArguments)
InitCyc ==
    /\ cPc = "prior"
    /\ interval \in Intervals
    /\ priorCall = ZeroTime
    /\ afterCall = ZeroTime
    /\ execTime = Big(0)
    /\ waitingTime = Big(0)
    /\ cLog = "none"
    /\ cDelay = NoDelay
    /\ calls = 0
    /\ cycles = 0

\* a VOS_TIMEVAL_T and the operands of the time functions, before any call
InitTim ==
    /\ tmA = ZeroTime
    /\ tmB = ZeroTime
    /\ tmK = Big(0)
    /\ tmOps = 0
    /\ tmLast = [op |-> "none", a |-> ZeroTime, log |-> "none", ret |-> 0, pop |-> "none"]

\* the same, the time value and the operands drawn from the samples
InitTimInputs ==
    /\ tmA \in TimeVals
    /\ tmB \in TimeOperands
    /\ tmK \in Scalars
    /\ tmOps = 0
    /\ tmLast = [op |-> "none", a |-> ZeroTime, log |-> "none", ret |-> 0, pop |-> "none"]

\* no thread is inside vos_getUuid
InitGen ==
    /\ gPc = [t \in Threads |-> "idle"]
    /\ gId = [t \in Threads |-> NoUuid]
    /\ gTmp = [t \in Threads |-> 0]

\* the values of count the concurrent calls start from: the initial one, one
\* before a carry into the high byte, and the last one before the wrap
RaceCounts == {1, BYTE_MOD - 1, UINT16_MOD - 1}

\* static UINT16 count = 1;
InitUid ==
    /\ count = 1
    /\ uCalls = 0
    /\ uMark = NoUuid
    /\ uLast = [id |-> NoUuid, log |-> "none"]
    /\ InitGen
    /\ gStart = count

(***************************************************************************)
(* Specifications                                                          *)
(***************************************************************************)

\* the thread library, called from the application
NextThread ==
    \/ vos_threadInit
    \/ vos_threadTerm
    \/ \E pThreadNull \in BOOLEAN, pNameNull \in BOOLEAN, policyOther \in BOOLEAN,
          priority \in PrioSample, ival \in {0, 10000}, spawn \in FreeHandle \cup {NULL} :
            vos_threadCreate(pThreadNull, pNameNull, policyOther, priority, ival, spawn)
    \/ \E h \in Threads \cup {NULL}, ok \in BOOLEAN : vos_threadTerminate(h, ok)
    \/ \E h \in Threads \cup {NULL} : vos_threadIsActive(h)
    \/ \E t \in Threads, pThreadNull \in BOOLEAN : vos_threadSelf(t, pThreadNull)
    \/ \E delay \in DelayInputs : ThreadDelay(delay)
    \/ \E h \in Threads : ThreadExit(h)

StartThread == InitThr /\ InitMtx /\ InitSem /\ InitCyc /\ interval = Big(0)
    /\ InitTim /\ InitUid

SpecThread == StartThread /\ [][NextThread]_vars

\* one run of vos_cyclicThread
NextCyclic == CycGetPrior \/ CycCall \/ CycMeasure \/ CycDelay

StartCyclic == InitThrRunning /\ InitMtx /\ InitSem /\ InitCyc /\ InitTim /\ InitUid

SpecCyclic == StartCyclic /\ [][NextCyclic]_vars

\* the mutex, used by the running threads, any of which may be terminated
NextMutex ==
    \/ \E pMutexNull \in BOOLEAN, allocOk \in BOOLEAN, nativeOk \in BOOLEAN :
          vos_mutexCreate(pMutexNull, allocOk, nativeOk)
    \/ \E null \in BOOLEAN : vos_mutexDelete(null)
    \/ \E t \in Threads, null \in BOOLEAN : vos_mutexLock(t, null)
    \/ \E t \in Threads : LockWake(t)
    \/ \E t \in Threads, null \in BOOLEAN : vos_mutexTryLock(t, null)
    \/ \E t \in Threads, null \in BOOLEAN : vos_mutexUnlock(t, null)
    \/ \E h \in Threads, ok \in BOOLEAN : vos_threadTerminate(h, ok)

StartMutex == InitThrRunning /\ InitMtx /\ InitSem /\ InitCyc /\ interval = Big(0)
    /\ InitTim /\ InitUid

SpecMutex == StartMutex /\ [][NextMutex]_vars

\* the semaphore, used by the running threads
NextSema ==
    \/ \E pSemaNull \in BOOLEAN, initialState \in SemaStates, allocOk \in BOOLEAN, nativeOk \in BOOLEAN :
          vos_semaCreate(pSemaNull, initialState, allocOk, nativeOk)
    \/ \E null \in BOOLEAN : vos_semaDelete(null)
    \/ \E t \in Threads, null \in BOOLEAN, timeout \in Timeouts : vos_semaTake(t, null, timeout)
    \/ \E t \in Threads : TakeWake(t)
    \/ \E t \in Threads : TakeTimeout(t)
    \/ \E null \in BOOLEAN : vos_semaGive(null)

StartSema == InitThrRunning /\ InitMtx /\ InitSem /\ InitCyc /\ interval = Big(0)
    /\ InitTim /\ InitUid

SpecSema == StartSema /\ [][NextSema]_vars

\* the priority mapping of vos_threadCreate over the whole priority scale
NextPrio ==
    \/ vos_threadInit
    \/ \E policyOther \in BOOLEAN, priority \in PrioInputs, spawn \in FreeHandle \cup {NULL} :
          vos_threadCreate(FALSE, FALSE, policyOther, priority, 0, spawn)

StartPrio == InitThr /\ InitMtx /\ InitSem /\ InitCyc /\ interval = Big(0)
    /\ InitTim /\ InitUid

SpecPrio == StartPrio /\ [][NextPrio]_vars

\* the time functions, applied one after the other to a time value
NextTime ==
    \/ TimeClear
    \/ \E clk \in UuidClocks \cup {c \in Clocks : ~c.ok} : TimeGet(clk)
    \/ TimeAdd
    \/ TimeSub
    \/ TimeMul
    \/ TimeDiv
    \/ TimeCmp

StartTime ==
    InitThrRunning /\ InitMtx /\ InitSem /\ InitCyc /\ interval = Big(0)
    /\ InitTimInputs /\ InitUid

SpecTime == StartTime /\ [][NextTime]_vars

\* successive calls of vos_getUuid in one process
NextUuid == \E clk \in UuidClocks, macOk \in BOOLEAN : vos_getUuid(clk, macOk)

StartUuid ==
    InitThrRunning /\ InitMtx /\ InitSem /\ InitCyc /\ interval = Big(0)
    /\ InitTim /\ InitUid

SpecUuid == StartUuid /\ [][NextUuid]_vars

\* every running thread calls vos_getUuid once, all at the same time
NextUuidRace ==
    \/ \E t \in Threads, clk \in UuidClocks : GenEnter(t, clk)
    \/ \E t \in Threads : GenByte8(t)
    \/ \E t \in Threads : GenByte9(t)
    \/ \E t \in Threads : GenLoad(t)
    \/ \E t \in Threads : GenStore(t)

StartUuidRace ==
    InitThrRunning /\ InitMtx /\ InitSem /\ InitCyc /\ interval = Big(0)
    /\ InitTim /\ InitGen
    /\ count \in RaceCounts /\ gStart = count
    /\ uCalls = 0 /\ uMark = NoUuid /\ uLast = [id |-> NoUuid, log |-> "none"]

SpecUuidRace == StartUuidRace /\ [][NextUuidRace]_vars

(***************************************************************************)
(* Properties of the mutex (checked under SpecMutex)                       *)
(***************************************************************************)

\* this step is the completion of the mutex call op by thread t
MutexStep(op, t) == tLast' = tLast /\ mLast'.op = op /\ mLast'.t = t

\* thread T holds the mutex through exactly n nested lock calls that succeeded
HoldsNested(T, n) ==
    thr[T] = "running" /\ nOpen /\ nOwner = T /\ nDepth = n /\ held[T] = n

\* C1 - Mutex recursion: while a thread T holds the mutex through two nested
\* successful lock calls, no lock or tryLock of another thread succeeds; T's first
\* unlock succeeds and leaves T the owner, and T's second unlock succeeds and
\* leaves the mutex available (not owned).
C1_Recursion ==
    [][\A T \in Threads :
         /\ (HoldsNested(T, 2) \/ HoldsNested(T, 1)) =>
               \A u \in Threads \ {T} :
                  /\ MutexStep("lock", u) => mLast'.ret # "VOS_NO_ERR" /\ nOwner' = T
                  /\ MutexStep("tryLock", u) => mLast'.ret # "VOS_NO_ERR" /\ nOwner' = T
         /\ (HoldsNested(T, 2) /\ MutexStep("unlock", T) /\ mLast'.ret # "VOS_PARAM_ERR") =>
               mLast'.ret = "VOS_NO_ERR" /\ nOwner' = T /\ nDepth' = 1 /\ held'[T] = 1
         /\ (HoldsNested(T, 1) /\ MutexStep("unlock", T) /\ mLast'.ret # "VOS_PARAM_ERR") =>
               mLast'.ret = "VOS_NO_ERR" /\ nOwner' = 0 /\ nDepth' = 0 /\ held'[T] = 0
      ]_vars

\* C1 witness: T holds the mutex two levels deep and another thread's lock waits
C1_Witness ==
    \E T \in Threads, u \in Threads :
        /\ T # u
        /\ HoldsNested(T, 2)
        /\ thr[u] = "running" /\ pc[u] = "mutexWait"

\* the threads that hold a lock or tryLock that returned success and is not yet unlocked
Holders == {t \in Threads : thr[t] = "running" /\ held[t] > 0}

C3_TryLockOutcomes ==
    (mLast.op = "tryLock" /\ mLast.ret # "VOS_PARAM_ERR") =>
        /\ (mLast.pre \notin {0, mLast.t}) =>
              mLast.ret = "VOS_INUSE_ERR" /\ mLast.post = mLast.pre
        /\ (mLast.pre = 0) => mLast.ret = "VOS_NO_ERR" /\ mLast.post = mLast.t
        /\ (mLast.ret = "VOS_MUTEX_ERR") => mLast.nat = "WAIT_FAILED"

\* the calls that start with the check of the integrity tag
TagOps == {"lock", "tryLock", "unlock", "delete"}

\* the handle held by the callers refers to no mutex with the sentinel in its tag
TagInvalid == ~mAlloc \/ magicNo # cMutextMagic

\* this step is the return of one of the calls of TagOps
TagStep == mLast' # mLast /\ mLast'.op \in TagOps

\* C17 - Integrity-tag validation: lock, tryLock, unlock and delete on a null
\* handle or on a mutex whose tag is not the sentinel return (delete: log)
\* invalid parameter and issue no native operation: lock state, ownership and
\* tag are unchanged.
C17_TagChecked ==
    [][TagStep =>
          /\ TagInvalid => mLast'.ret = "VOS_PARAM_ERR"
          /\ (mLast'.ret = "VOS_PARAM_ERR") =>
                /\ mLast'.nat = "none" /\ mLast'.post = mLast'.pre
                /\ UNCHANGED <<mAlloc, magicNo, nOpen, nOwner, nDepth, nAbandoned, held, pc>>
      ]_vars

\* C17 witness: a tryLock on a mutex whose storage exists but whose native
\* mutex could not be created was turned away
C17_Witness ==
    /\ mLast.op = "tryLock" /\ mLast.ret = "VOS_PARAM_ERR"
    /\ mAlloc /\ magicNo # cMutextMagic /\ ~nOpen
    /\ \A t \in Threads : held[t] = 0 /\ pc[t] # "stuck"

\* C18 - Use-after-delete is rejected: a delete of a valid mutex clears the tag;
\* from then until the next successful create every lock, tryLock, unlock and
\* delete is rejected with invalid parameter and the tag stays cleared; from a
\* successful create until that delete the tag equals the sentinel.
C18_UseAfterDelete ==
    [][/\ (mLast' # mLast /\ mLast'.op = "delete" /\ magicNo = cMutextMagic
            /\ mLast'.ret # "VOS_PARAM_ERR") =>
              mLast'.ret = "VOS_NO_ERR" /\ magicNo' # cMutextMagic /\ ~nOpen'
       /\ (TagStep /\ mAlloc /\ magicNo # cMutextMagic) =>
              mLast'.ret = "VOS_PARAM_ERR" /\ magicNo' = magicNo
       /\ (magicNo # cMutextMagic /\ magicNo' = cMutextMagic) =>
              mLast'.op = "create" /\ mLast'.ret = "VOS_NO_ERR"
       /\ (mLast' # mLast /\ mLast'.op = "create" /\ mLast'.ret = "VOS_NO_ERR") =>
              magicNo' = cMutextMagic
       /\ (magicNo = cMutextMagic /\ magicNo' # cMutextMagic) =>
              mLast'.op = "delete" /\ mLast'.ret = "VOS_NO_ERR"
      ]_vars

\* C18 witness: a thread locked the mutex, the mutex was deleted, and the
\* thread's unlock was rejected
C18_Witness ==
    \E T \in Threads :
        /\ mLast.op = "unlock" /\ mLast.t = T /\ mLast.ret = "VOS_PARAM_ERR"
        /\ held[T] > 0 /\ mAlloc /\ magicNo # cMutextMagic /\ ~nOpen

(***************************************************************************)
(* Properties of the thread library (checked under SpecThread)             *)
(***************************************************************************)

\* this step is the completion of the thread-library call op
ThreadStep(op) == tLast' # tLast /\ tLast'.op = op

GuardedOps == {"create", "terminate", "isActive"}
UnguardedOps == {"self", "delay"}

C24_UnlockOneLevel ==
    [][\A t \in Threads :
         (MutexStep("unlock", t) /\ mLast'.ret # "VOS_PARAM_ERR") =>
            /\ (nOwner = t) =>
                  /\ mLast'.ret = "VOS_NO_ERR"
                  /\ nDepth' = nDepth - 1
                  /\ nOwner' = IF nDepth = 1 THEN 0 ELSE t
            /\ (nOwner # t) =>
                  /\ mLast'.ret = "VOS_MUTEX_ERR"
                  /\ nOwner' = nOwner /\ nDepth' = nDepth /\ held' = held
      ]_vars

\* C24 witness: the unlock of a thread that does not own the mutex was turned
\* away, and the owner still holds its two levels
C24_Witness ==
    /\ mLast.op = "unlock" /\ mLast.ret = "VOS_MUTEX_ERR"
    /\ mLast.pre \notin {0, mLast.t}
    /\ nOpen /\ nOwner = mLast.pre /\ nDepth = 2 /\ held[nOwner] = 2

\* the return values of vos_mutexCreate that report a failed creation
MutexCreateFailures == {"VOS_MEM_ERR", "VOS_MUTEX_ERR"}

\* C25 - A mutex is available right after a successful create: create stamps the
\* integrity tag and leaves the mutex unowned, so the first lock or tryLock by
\* any thread succeeds without blocking; create returns VOS_MEM_ERR when the
\* storage cannot be allocated and VOS_MUTEX_ERR when the native mutex cannot be
\* created, and in both cases it does not stamp the tag.
C25_AvailableAfterCreate ==
    [][/\ (MutexStep("create", 0) /\ mLast'.ret = "VOS_NO_ERR") =>
             magicNo' = cMutextMagic /\ nOpen' /\ nOwner' = 0 /\ nDepth' = 0 /\ ~nAbandoned'
       /\ (MutexStep("create", 0) /\ mLast'.ret \in MutexCreateFailures) =>
             /\ magicNo' = magicNo /\ nOpen' = nOpen /\ nOwner' = nOwner
             /\ (mLast'.ret = "VOS_MEM_ERR") => ~mAlloc /\ ~mAlloc'
             /\ (~mAlloc) => magicNo' # cMutextMagic
       /\ (mLast.op = "create" /\ mLast.ret = "VOS_NO_ERR") =>
             \A t \in Threads :
                /\ ~MutexStep("lockWait", t)
                /\ \A op \in {"lock", "tryLock"} :
                     (MutexStep(op, t) /\ mLast'.ret # "VOS_PARAM_ERR") =>
                        mLast'.ret = "VOS_NO_ERR" /\ nOwner' = t /\ nDepth' = 1
      ]_vars

\* C25 witness: a create over a mutex that a thread was waiting for has
\* succeeded: the mutex is valid and unowned and a thread is there to lock it
C25_Witness ==
    /\ mLast.op = "create" /\ mLast.ret = "VOS_NO_ERR"
    /\ magicNo = cMutextMagic /\ nOpen /\ nOwner = 0 /\ nDepth = 0
    /\ \E u \in Threads : pc[u] = "stuck"
    /\ \E t \in Threads : thr[t] = "running" /\ pc[t] = "run"

\* thread h was terminated while it held the mutex, which has not been deleted
\* or created again since
Leaked(h) == thr[h] = "terminated" /\ held[h] > 0 /\ magicNo = cMutextMagic

\* C26 - Forced termination leaks locks: after vos_threadTerminate has stopped a
\* thread that holds the mutex, the mutex stays acquired, so no lock or tryLock
\* of another thread succeeds afterwards.
C26_LockLeaked ==
    [][\A h \in Threads : Leaked(h) =>
          \A u \in Threads \ {h}, op \in {"lock", "tryLock"} :
             MutexStep(op, u) => mLast'.ret # "VOS_NO_ERR"
      ]_vars

\* C27 - Return value matches ownership: when lock or tryLock returns anything
\* but success, the caller has not become owner and the recursion depth is
\* unchanged, also when the native wait reports an abandoned mutex; ownership
\* is gained exactly when success is returned.
C27_RetMatchesOwnership ==
    [][\A u \in Threads, op \in {"lock", "tryLock"} :
         MutexStep(op, u) =>
            /\ (mLast'.ret # "VOS_NO_ERR") => nOwner' = nOwner /\ nDepth' = nDepth
            /\ (mLast'.ret = "VOS_NO_ERR") => nOwner' = u /\ nDepth' = nDepth + 1
      ]_vars

(***************************************************************************)
(* Properties of the semaphore (checked under SpecSema)                    *)
(***************************************************************************)

\* the semaphore is open and was created with initial state "empty"
CreatedEmpty == sAlloc /\ sOpen /\ sInit = VOS_SEMA_EMPTY

\* C5 - Semaphore created empty: its count starts at 0; a take with timeout 0 on
\* count 0 returns VOS_SEMA_ERR without waiting and leaves the count at 0; a give
\* on count 0 raises the count to 1; the take that finds count 1 returns
\* VOS_NO_ERR and the count is 0 again; the count is the number of gives minus
\* the number of successful takes.
C5_EmptyThenGive ==
    CreatedEmpty =>
        /\ sCount = sGives - sTakes
        /\ (sLast.op = "create" /\ sLast.ret = "VOS_NO_ERR") => sCount = 0
        /\ (sLast.op = "take" /\ ~sLast.null /\ sLast.pre = 0 /\ ~sLast.waited) =>
              /\ sLast.timeout \div USECS_PER_MSEC = 0
              /\ sLast.ret = "VOS_SEMA_ERR" /\ sCount = 0
        /\ (sLast.op = "takeWait") => sLast.timeout \div USECS_PER_MSEC > 0 /\ sCount = 0
        /\ (sLast.op = "give" /\ ~sLast.null /\ sLast.pre = 0) => sCount = 1
        /\ (sLast.op = "take" /\ ~sLast.null /\ sLast.pre = 1) =>
              sLast.ret = "VOS_NO_ERR" /\ sCount = 0

\* C5 witness: created empty, one give, and the take after it succeeded
C5_Witness ==
    /\ CreatedEmpty /\ sGives = 1 /\ sTakes = 1 /\ sCount = 0
    /\ sLast.op = "take" /\ sLast.ret = "VOS_NO_ERR" /\ sLast.pre = 1
    /\ sLast.timeout = 0 /\ ~sLast.waited

\* C6 - take with a null handle returns VOS_NOINIT_ERR and the handle is not
\* dereferenced (no native wait is issued on it).
C6_NullTake ==
    (sLast.op = "take" /\ sLast.null) =>
        sLast.ret = "VOS_NOINIT_ERR" /\ ~sLast.deref /\ ~crashed

\* C21 - give increments the count by exactly one when it is below the maximum;
\* when the native release fails because the count is at the maximum, give
\* leaves the count unchanged and logs the condition; give logs an error only in
\* that case (or for a null handle), never for a successful release.
C21_GiveLogged ==
    (sLast.op = "give" /\ ~sLast.null /\ sOpen) =>
        /\ (sLast.pre < MAX_SEM_COUNT) => sCount = sLast.pre + 1 /\ sLast.log = "none"
        /\ (sLast.pre = MAX_SEM_COUNT) => sCount = sLast.pre /\ sLast.log = "error"

\* this step is the return of a vos_semaCreate
SemaCreateStep == sLast' # sLast /\ sLast'.op = "create"

\* C22 - Semaphore create accepts exactly the initial states empty and full:
\* any other initialState, or a null output pointer, returns VOS_PARAM_ERR
\* without allocating storage or creating a native semaphore; a failed
\* allocation of the storage returns VOS_MEM_ERR.
C22_CreateChecked ==
    [][SemaCreateStep =>
          /\ (sLast'.null \/ sLast'.pre \notin {VOS_SEMA_EMPTY, VOS_SEMA_FULL}) <=>
                sLast'.ret = "VOS_PARAM_ERR"
          /\ (sLast'.ret = "VOS_PARAM_ERR") =>
                UNCHANGED <<sAlloc, sOpen, sCount, sInit, sGives, sTakes, pc>>
          /\ (sLast'.ret # "VOS_PARAM_ERR" /\ ~sAlloc /\ ~sAlloc') <=> sLast'.ret = "VOS_MEM_ERR"
          /\ (sLast'.ret = "VOS_MEM_ERR") =>
                UNCHANGED <<sAlloc, sOpen, sCount, sInit, sGives, sTakes, pc>>
      ]_vars

\* C22 witness: a create with an initial state that is neither empty nor full
\* was turned away before any storage existed
C22_Witness ==
    /\ sLast.op = "create" /\ sLast.ret = "VOS_PARAM_ERR" /\ ~sLast.null
    /\ sLast.pre = VOS_SEMA_FULL + 1
    /\ ~sAlloc /\ ~sOpen

\* the count of the open semaphore is within its bounds and is the initial count
\* plus the successful gives minus the successful takes
Conserved ==
    sOpen => /\ 0 <= sCount /\ sCount <= MAX_SEM_COUNT
             /\ sCount = sInit + sGives - sTakes

\* C29 - Semaphore count conservation: in every reachable state of every
\* interleaving of create, give and take by several threads the count is in
\* 0..MAX_SEM_COUNT and equals the initial count plus the number of successful
\* gives minus the number of successful takes; a take that returns anything but
\* success leaves the count unchanged.
C29_Conservation ==
    [][/\ Conserved'
       /\ (sLast'.op = "take" /\ ~sLast'.null) =>
             /\ (sLast'.ret = "VOS_NO_ERR") =>
                   sCount' = sCount - 1 /\ sTakes' = sTakes + 1 /\ sGives' = sGives
             /\ (sLast'.ret # "VOS_NO_ERR") =>
                   sCount' = sCount /\ sTakes' = sTakes /\ sGives' = sGives
       /\ (sLast'.op = "takeWait") => sCount' = sCount /\ sTakes' = sTakes
       /\ (sLast'.op = "give") =>
             /\ sTakes' = sTakes
             /\ \/ sCount' = sCount + 1 /\ sGives' = sGives + 1
                \/ sCount' = sCount /\ sGives' = sGives
      ]_vars

\* C29 witness: after gives and takes by the threads, a take found the count at
\* 0, waited, and came back without the semaphore
C29_Witness ==
    /\ sOpen /\ sInit = VOS_SEMA_FULL /\ sGives = 2 /\ sTakes = 3 /\ sCount = 0
    /\ sLast.op = "take" /\ ~sLast.null /\ sLast.waited /\ sLast.ret # "VOS_NO_ERR"

\* the semaphore is open and was created with initial state "full"
CreatedFull == sAlloc /\ sOpen /\ sInit = VOS_SEMA_FULL

\* a take with timeout 0 has returned and no give has been made since the create
TakeNowNoGive ==
    /\ sLast.op = "take" /\ ~sLast.null /\ ~sLast.waited /\ sLast.timeout = 0
    /\ sGives = 0

ElapsedMicros == BNorm(afterCall.tv_sec, afterCall.tv_usec)

\* the cycle has measured the runtime and computed its waiting time
Measured == cPc = "delay" \/ (cPc = "prior" /\ cycles > 0)

\* the cycle has made its call of vos_threadDelay
CycleDone == cPc = "prior" /\ cycles > 0

C8_Overrun ==
    /\ (Measured /\ BLess(interval, ElapsedMicros)) =>
          /\ waitingTime = Big(0)
          /\ cLog = (IF afterCall.tv_sec <= MAXSEC_FOR_USECPRESENTATION
                     THEN "overrun" ELSE "range")
    /\ calls = cycles + (IF cPc \in {"after", "delay"} THEN 1 ELSE 0)

\* C8 witness: the second iteration overruns after a first one that overran too
C8_Witness ==
    /\ cPc = "delay" /\ cycles = 1 /\ calls = 2
    /\ interval = Big(10000)
    /\ afterCall = [tv_sec |-> 0, tv_usec |-> 15000]
    /\ waitingTime = Big(0) /\ cLog = "overrun"
    /\ cDelay.ret = "VOS_PARAM_ERR"

\* the time Sleep() was asked to wait, in microseconds
SleptMicros ==
    BNorm(cDelay.sleepMs \div MSECS_PER_SEC, (cDelay.sleepMs % MSECS_PER_SEC) * USECS_PER_MSEC)

\* C9 - Delay: in every cycle the thread is delayed for the computed waiting
\* time, whatever its value: a waiting time above 0 is accepted by the delay and
\* slept, to the millisecond resolution of the native sleep.
C9_Delayed ==
    CycleDone =>
        /\ (waitingTime # Big(0)) => cDelay.ret = "VOS_NO_ERR" /\ cDelay.sleepMs > 0
        /\ ~BLess(waitingTime, SleptMicros)
        /\ BLess(waitingTime, BAdd(SleptMicros, Big(USECS_PER_MSEC)))

\* C31 - The elapsed-time conversion never overflows: whenever the elapsed
\* seconds pass the bound check (seconds <= 4293), execTime equals the true
\* elapsed microsecond count seconds * 1,000,000 + microseconds, which fits an
\* unsigned 32-bit value, also when the elapsed seconds are negative.
C31_ExecTimeExact ==
    (Measured /\ afterCall.tv_sec <= MAXSEC_FOR_USECPRESENTATION) =>
        /\ execTime = ElapsedMicros
        /\ ~BLess(ElapsedMicros, Big(0))
        /\ ~BLess(UINT32_MAX, ElapsedMicros)

\* C32 - When the measured elapsed seconds exceed the bounded range (more
\* than 4293), the cycle logs the range error, leaves execTime alone and
\* uses wait time 0, and the loop goes on with the next cycle.  The loop has
\* no exit: it is always at one of its four positions, and every step leads
\* to the next position of the cycle, the delay back to the start.  In each
\* cycle the order is: capture priorCall, invoke the user function once,
\* capture afterCall and compute the wait, delay by that wait.
C32_LoopOrder ==
    /\ [](/\ cPc \in {"prior", "call", "after", "delay"}
          /\ calls = cycles + (IF cPc \in {"after", "delay"} THEN 1 ELSE 0))
    /\ [][/\ cPc = "prior" => cPc' = "call" /\ calls' = calls /\ cycles' = cycles
          /\ cPc = "call" => cPc' = "after" /\ calls' = calls + 1 /\ cycles' = cycles
          /\ cPc = "after" =>
                /\ cPc' = "delay" /\ calls' = calls /\ cycles' = cycles
                /\ afterCall'.tv_sec > MAXSEC_FOR_USECPRESENTATION =>
                      /\ cLog' = "range"
                      /\ waitingTime' = Big(0)
                      /\ execTime' = execTime
                /\ afterCall'.tv_sec <= MAXSEC_FOR_USECPRESENTATION => cLog' # "range"
          /\ cPc = "delay" =>
                /\ cPc' = "prior" /\ calls' = calls /\ cycles' = cycles + 1
                /\ cDelay' = vos_threadDelay(waitingTime)
                /\ cLog = "range" => cDelay'.sleepMs = 0]_vars

\* the second cycle has begun after a cycle that took the out-of-range branch
C32_Witness ==
    /\ cPc = "call"
    /\ cycles = 1
    /\ afterCall.tv_sec > MAXSEC_FOR_USECPRESENTATION
    /\ waitingTime = Big(0)
    /\ cDelay.sleepMs = 0
    /\ cDelay.ret # "none"

(***************************************************************************)
(* Properties of the priority mapping (checked under SpecPrio)             *)
(***************************************************************************)

\* C10 - Priority banding: for every priority p in 1..255 a successful create
\* uses a band index in 0..6 and sets one of the 7 native levels, and the index
\* is that of 7 equal bands over 1..255, (p - 1) * 7 \div 255.
C10_BandInTable ==
    (tLast.op = "create" /\ tLast.ret = "VOS_NO_ERR" /\ tLast.prio \in 1..MaxPriority) =>
        /\ tLast.idx \in 0..(PrioTableLen - 1)
        /\ tLast.level \in NativeLevels
        /\ tLast.idx = ((tLast.prio - 1) * PrioTableLen) \div MaxPriority

\* the place of a native level in the order of prioMap (lowest first); a value
\* that is none of the 7 levels has no place among them
LevelRank(level) ==
    IF level \in NativeLevels THEN CHOOSE i \in 1..PrioTableLen : prioMap[i] = level ELSE 0

\* the last call was a successful create with a priority of the scale 1..255
CreatedWithPrio(rec) ==
    rec.op = "create" /\ rec.ret = "VOS_NO_ERR" /\ rec.prio \in 1..MaxPriority

\* C11 - Priority mapping is monotone: of two successful creates with
\* priorities p <= q in 1..255, the one with p is given one of the 7 native
\* levels and it is not higher than the native level given to the one with q.
C11_Monotone ==
    [][(CreatedWithPrio(tLast) /\ CreatedWithPrio(tLast') /\ tLast.prio <= tLast'.prio) =>
          /\ tLast.level \in NativeLevels /\ tLast'.level \in NativeLevels
          /\ LevelRank(tLast.level) <= LevelRank(tLast'.level)
      ]_vars

(***************************************************************************)
(* Properties of the time functions (checked under SpecTime)               *)
(***************************************************************************)

\* the last call was op, on valid pointers, and was carried out
TimeDone(op) == tmLast.op = op /\ tmLast.log = "none" /\ tmLast.a # NullTime

\* C12 - Time round-trip: when vos_addTime(a, b) is followed by vos_subTime of the
\* same b, a and b well-formed, the result is a again, seconds and microseconds.
C12_RoundTrip ==
    [][(TimeDone("add") /\ WellFormed(tmLast.a) /\ WellFormed(tmB)
          /\ tmOps' = tmOps + 1 /\ tmLast'.op = "sub") =>
            tmLast'.log = "none" /\ tmLast'.a = tmA /\ tmA' = tmLast.a
      ]_vars

\* C12 witness: an add that carried a second, undone by the subtract that borrowed it
C12_Witness ==
    /\ TimeDone("sub") /\ tmLast.pop = "add"
    /\ WellFormed(tmA) /\ WellFormed(tmB)
    /\ tmLast.a = vos_addTime(tmA, tmB)
    /\ tmLast.a.tv_usec < tmA.tv_usec

\* C13 - Microsecond normalization: after add, subtract, multiply, divide
\* (divisor > 0), clear or getTime on well-formed inputs the microsecond field of
\* the result is in 0..999999, for every UINT32 multiplier and divisor.
C13_Normalized ==
    (/\ \E op \in {"add", "sub", "mul", "div", "clear", "getTime"} : TimeDone(op)
     /\ tmLast.op \notin {"clear", "getTime"} => WellFormed(tmLast.a)
     /\ tmLast.op \in {"add", "sub"} => WellFormed(tmB))
        => WellFormed(tmA)

\* C14 - compare is antisymmetric and reflexive: vos_cmpTime(a, b) is the
\* negative of vos_cmpTime(b, a), and vos_cmpTime(a, a) is 0.
C14_Antisymmetric ==
    (tmLast.op = "cmp" /\ tmA # NullTime /\ tmB # NullTime) =>
        /\ tmLast.ret = vos_cmpTime(tmA, tmB)
        /\ tmLast.ret = 0 - vos_cmpTime(tmB, tmA)
        /\ tmLast.ret \in {0 - 1, 0, 1}
        /\ vos_cmpTime(tmA, tmA) = 0 /\ vos_cmpTime(tmB, tmB) = 0
        /\ (tmA = tmB) => tmLast.ret = 0

\* C14 witness: two values with equal seconds, told apart by the microseconds
C14_Witness ==
    /\ tmLast.op = "cmp" /\ tmA # NullTime /\ tmB # NullTime
    /\ tmA.tv_sec = tmB.tv_sec /\ tmA.tv_usec < tmB.tv_usec
    /\ tmLast.ret = 0 - 1 /\ vos_cmpTime(tmB, tmA) = 1

\* C15 - divide: with divisor 0 the time value is unchanged and an error is
\* logged; with divisor 1 every well-formed time value is unchanged.
C15_Divide ==
    (tmLast.op = "div" /\ tmLast.a # NullTime) =>
        /\ (tmK = Big(0)) => tmA = tmLast.a /\ tmLast.log = "error"
        /\ (tmK # Big(0)) => tmLast.log = "none"
        /\ (tmK = Big(1) /\ WellFormed(tmLast.a)) => tmA = tmLast.a

\* C15 witness: a division by 0 that left a time value with both fields set as it was
C15_Witness ==
    /\ tmLast.op = "div" /\ tmK = Big(0) /\ tmLast.log = "error"
    /\ WellFormed(tmA) /\ tmA = tmLast.a
    /\ tmA.tv_sec # 0 /\ tmA.tv_usec # 0

\* the seconds of total(a) - total(b), as a number: a.tv_sec - b.tv_sec, less
\* the borrowed second
ExactSubSecs(a, b) ==
    BSub(BSub(OfLong(a.tv_sec), OfLong(b.tv_sec)),
         Big(IF b.tv_usec > a.tv_usec THEN 1 ELSE 0))

\* the microseconds of total(a) - total(b), in 0..999999
ExactSubUsecs(a, b) ==
    IF b.tv_usec > a.tv_usec THEN (a.tv_usec + USEC_PER_SEC) - b.tv_usec
    ELSE a.tv_usec - b.tv_usec

\* a number that a long can hold
FitsLong(n) == ~BLess(n, OfLong(MinLong)) /\ ~BLess(OfLong(MaxLong), n)

\* C33 (as stated) - subtract computes the exact difference: for all
\* well-formed a and b, vos_subTime(a, b) yields (s, u) with 0 <= u <= 999999
\* and s * 1,000,000 + u = total(a) - total(b), which fixes s and u: u is the
\* microsecond difference after the borrow and s the seconds difference less
\* the borrow; a negative s is not clamped.
C33_ExactDifference ==
    (TimeDone("sub") /\ WellFormed(tmLast.a) /\ WellFormed(tmB)) =>
        /\ WellFormed(tmA)
        /\ tmA.tv_usec = ExactSubUsecs(tmLast.a, tmB)
        /\ OfLong(tmA.tv_sec) = ExactSubSecs(tmLast.a, tmB)

\* C33 (amended) - subtract computes the exact difference whenever the seconds
\* of that difference fit the 32-bit tv_sec field: then vos_subTime(a, b)
\* yields (s, u) with 0 <= u <= 999999 and s * 1,000,000 + u = total(a) -
\* total(b), negative s included; the microsecond field is exact in every case.
C33_ExactInRange ==
    (TimeDone("sub") /\ WellFormed(tmLast.a) /\ WellFormed(tmB)) =>
        /\ WellFormed(tmA)
        /\ tmA.tv_usec = ExactSubUsecs(tmLast.a, tmB)
        /\ FitsLong(ExactSubSecs(tmLast.a, tmB)) =>
              OfLong(tmA.tv_sec) = ExactSubSecs(tmLast.a, tmB)

\* C33 witness: a smaller value less a larger one, with a borrow: the seconds
\* come out negative
C33_Witness ==
    /\ TimeDone("sub") /\ WellFormed(tmLast.a) /\ WellFormed(tmB)
    /\ tmLast.a.tv_sec >= 0 /\ tmB.tv_usec > tmLast.a.tv_usec
    /\ FitsLong(ExactSubSecs(tmLast.a, tmB))
    /\ tmA.tv_sec < 0
    /\ tmA.tv_sec = (tmLast.a.tv_sec - tmB.tv_sec) - 1

\* floor(y / k) for a number y below 1000 * k
SmallQuot(y, k) ==
    CHOOSE c \in 0..999 : ~BLess(y, BTimes(k, c)) /\ BLess(y, BTimes(k, c + 1))

\* floor(total(a) / k) as a normalized time value, a non-negative and k >= 1,
\* by long division: the seconds, then the microseconds three digits at a time
ExactDiv(a, k) ==
    LET sec  == OfLong(a.tv_sec)
        quo  == IF BLess(sec, k) THEN 0 ELSE a.tv_sec \div ToLong(k)
        rem  == IF BLess(sec, k) THEN sec ELSE Big(a.tv_sec % ToLong(k))
        y1   == BAdd(BTimes(rem, 1000), Big(a.tv_usec \div 1000))
        d1   == SmallQuot(y1, k)
        y0   == BAdd(BTimes(BSub(y1, BTimes(k, d1)), 1000), Big(a.tv_usec % 1000))
    IN  [tv_sec |-> quo, tv_usec |-> d1 * 1000 + SmallQuot(y0, k)]

\* C34 - divide computes the floor quotient: for every well-formed
\* non-negative time value a and every divisor k >= 1 of the UINT32 range,
\* vos_divTime(a, k) yields the normalized time value whose total microseconds
\* are floor(total(a) / k), the step remainder * 1,000,000 being evaluated in
\* 32-bit arithmetic.
C34_FloorQuotient ==
    (/\ TimeDone("div") /\ tmK # Big(0)
     /\ WellFormed(tmLast.a) /\ tmLast.a.tv_sec >= 0)
        => tmA = ExactDiv(tmLast.a, tmK)

\* k * total(a) for a well-formed non-negative a: whether its seconds fit the
\* long tv_sec, and the normalized time value if they do.  The microsecond
\* product is formed three digits at a time, the seconds product only when
\* it cannot leave the range of long.
ExactMul(a, k) ==
    LET p1     == BTimes(k, a.tv_usec \div 1000)
        p0     == BTimes(k, a.tv_usec % 1000)
        usecs  == (p1.r % 1000) * 1000 + p0.r
        carry  == BAdd(BAdd(BTimes(Big(p1.q), 1000), Big(p1.r \div 1000)),
                       BAdd(Big(p0.q), Big(usecs \div USEC_PER_SEC)))
        small  == a.tv_sec = 0 \/ k = Big(0)
        secFit == small \/ (BLess(k, H31) /\ a.tv_sec <= MaxLong \div ToLong(k))
        secs   == BAdd(OfLong(IF small \/ ~secFit THEN 0 ELSE a.tv_sec * ToLong(k)), carry)
    IN  [fits    |-> secFit /\ FitsLong(secs),
         tv_sec  |-> IF secFit /\ FitsLong(secs) THEN ToLong(secs) ELSE 0,
         tv_usec |-> usecs % USEC_PER_SEC]

\* C35 - multiply computes the exact product: for every well-formed
\* non-negative time value a and every multiplier k of the UINT32 range,
\* vos_mulTime(a, k) yields the normalized time value whose total microseconds
\* are k * total(a).  Stated here for the products that a time value can hold
\* (seconds within long), which the claim includes.
C35_ExactProduct ==
    (/\ TimeDone("mul")
     /\ WellFormed(tmLast.a) /\ tmLast.a.tv_sec >= 0
     /\ ExactMul(tmLast.a, tmK).fits)
        => /\ WellFormed(tmA)
           /\ tmA.tv_sec = ExactMul(tmLast.a, tmK).tv_sec
           /\ tmA.tv_usec = ExactMul(tmLast.a, tmK).tv_usec

(***************************************************************************)
(* Properties of the identifier generator (checked under SpecUuid)         *)
(***************************************************************************)

\* the counter stored in bytes 8..9 of an identifier
CounterOf(id) == id.b8 + BYTE_MOD * id.b9

\* identifiers that agree in everything but the counter bytes
SameSample(x, y) ==
    x.b0_3 = y.b0_3 /\ x.b4_6 = y.b4_6 /\ x.b7 = y.b7 /\ x.mac = y.mac

\* C16 - Identifier uniqueness: the counter in bytes 8..9 increases by one
\* (wrapping at 65536) on every call, so the k-th identifier carries k mod 65536
\* and any run of at most 65536 calls (10000 in particular) yields distinct
\* values even when timestamp and hardware address are the same.
C16_Distinct ==
    /\ count = (uCalls + 1) % UINT16_MOD
    /\ uCalls >= 1 => CounterOf(uLast.id) = uCalls % UINT16_MOD
    /\ (uCalls >= 2 /\ uCalls <= UINT16_MOD) =>
            CounterOf(uLast.id) # CounterOf(uMark) /\ uLast.id # uMark

\* C16 witness: the 10000th call of a run, at the timestamp and address of the first
C16_Witness ==
    /\ uCalls = 10000
    /\ SameSample(uLast.id, uMark)
    /\ uLast.id # uMark

\* bytes 0..6 and 8..9 of the last identifier hold the clock sample clk and
\* the counter of that call: microseconds in bytes 0..3, seconds bits 0..23 in
\* bytes 4..6, the counter low byte first in bytes 8..9
TimeAndCounterBytes(clk) ==
    /\ uLast.id.b0_3 = clk.millitm * USECS_PER_MSEC
    /\ uLast.id.b4_6 = clk.time % (BYTE_MOD * UINT16_MOD)
    /\ uLast.id.b8 = (uCalls % UINT16_MOD) % BYTE_MOD
    /\ uLast.id.b9 = (uCalls % UINT16_MOD) \div BYTE_MOD

\* C36 - Identifier layout: vos_getUuid stores the microseconds little-endian
\* in bytes 0..3, the low three bytes of the seconds in bytes 4..6, the fixed
\* version marker 4 in the high bits of byte 7 with seconds bits 24..27 in the
\* remaining bits, and the counter little-endian in bytes 8..9; bytes 0..9 are
\* produced this way also when the hardware-address lookup fails, which is
\* only logged.
C36_Layout ==
    (uCalls >= 1) =>
        /\ \E clk \in UuidClocks :
              /\ TimeAndCounterBytes(clk)
              /\ uLast.id.b7 \div 16 = 4
              /\ uLast.id.b7 % 16 = (clk.time \div (BYTE_MOD * UINT16_MOD)) % 16
        /\ uLast.log = "error" <=> uLast.id.mac = "unset"

(***************************************************************************)
(* Properties of thread creation and delay (checked under SpecThread)      *)
(***************************************************************************)

\* the return values of vos_threadCreate other than success
CreateErrors == {"VOS_INIT_ERR", "VOS_PARAM_ERR", "VOS_THREAD_ERR"}

\* this step is a vos_threadCreate that spawns nothing
NothingSpawned == thr' = thr /\ tLast'.h = NULL

\* C19 (as stated) - Thread create with interval > 0 is rejected: it returns an
\* error, spawns no native execution unit and leaves the output handle null; with
\* the module initialised, a null handle-output pointer or null name returns a
\* parameter error and spawns nothing.
C19_Rejected ==
    [][ThreadStep("create") =>
          /\ (tLast'.arg.ival > 0) =>
                /\ tLast'.ret \in CreateErrors /\ NothingSpawned
                /\ ~tLast'.arg.pThreadNull => tLast'.out = NULL
          /\ (vosThreadInitialised /\ (tLast'.arg.pThreadNull \/ tLast'.arg.pNameNull)) =>
                tLast'.ret = "VOS_PARAM_ERR" /\ NothingSpawned
      ]_vars

\* C19 (amended) - Thread create with interval > 0 is rejected: it returns an
\* error and spawns no native execution unit, and when the module is initialised
\* and neither pointer is null it returns VOS_INIT_ERR and sets the output handle
\* to null; when the call fails on the module flag or on a null pointer the
\* output handle is not written. With the module initialised, a null
\* handle-output pointer or null name returns a parameter error and spawns nothing.
C19_RejectedChecked ==
    [][ThreadStep("create") =>
          /\ (tLast'.arg.ival > 0) =>
                /\ tLast'.ret \in CreateErrors /\ NothingSpawned
                /\ (vosThreadInitialised /\ ~tLast'.arg.pThreadNull /\ ~tLast'.arg.pNameNull) =>
                      tLast'.ret = "VOS_INIT_ERR" /\ tLast'.out = NULL
                /\ (~vosThreadInitialised \/ tLast'.arg.pThreadNull \/ tLast'.arg.pNameNull) =>
                      tLast'.out = Untouched
          /\ (vosThreadInitialised /\ (tLast'.arg.pThreadNull \/ tLast'.arg.pNameNull)) =>
                tLast'.ret = "VOS_PARAM_ERR" /\ NothingSpawned /\ tLast'.out = Untouched
      ]_vars

\* C19 witness: a cyclic create was turned away while another thread is running
C19_Witness ==
    /\ tLast.op = "create" /\ tLast.init /\ tLast.arg.ival > 0
    /\ ~tLast.arg.pThreadNull /\ ~tLast.arg.pNameNull
    /\ tLast.ret = "VOS_INIT_ERR" /\ tLast.out = NULL /\ tLast.h = NULL
    /\ \E h \in Threads : thr[h] = "running"
    /\ \E h \in Threads : thr[h] = "none"

\* the time Sleep() was asked to block by the last vos_threadDelay, in microseconds
BlockedMicros ==
    BNorm(tLast.sleepMs \div MSECS_PER_SEC, (tLast.sleepMs % MSECS_PER_SEC) * USECS_PER_MSEC)

\* C20 - delay never honours less than was requested without saying so: a delay
\* below 1000 microseconds returns VOS_PARAM_ERR without blocking, and an accepted
\* delay blocks the caller for at least the requested number of microseconds.
C20_DelayHonoured ==
    (tLast.op = "delay") =>
        /\ BLess(tLast.arg.delay, Big(MinDelay)) =>
              tLast.ret = "VOS_PARAM_ERR" /\ tLast.sleepMs = 0
        /\ (tLast.ret = "VOS_NO_ERR") => ~BLess(BlockedMicros, tLast.arg.delay)

\* C23 - isActive reports liveness: with the module initialised it returns
\* VOS_NO_ERR while the thread of the handle is running, and VOS_PARAM_ERR once
\* that thread has run out or has been terminated through vos_threadTerminate.
C23_Liveness ==
    (tLast.op = "isActive" /\ tLast.init /\ tLast.h \in Threads) =>
        /\ (thr[tLast.h] = "running") => tLast.ret = "VOS_NO_ERR"
        /\ (thr[tLast.h] \in {"exited", "terminated"}) => tLast.ret = "VOS_PARAM_ERR"

\* C28 - Concurrent identifier generation: when two threads call vos_getUuid
\* concurrently at the same timestamp, the reads of count for bytes 8..9 and its
\* increment interleaving in any order, the identifiers they produce differ and
\* count ends up advanced by two.
C28_ConcurrentDistinct ==
    (\A t \in Threads : gPc[t] = "done") =>
        /\ \A t \in Threads, u \in Threads : (t # u) => gId[t] # gId[u]
        /\ count = (gStart + NumThreads) % UINT16_MOD


\* C37 - Thread create output discipline: once the module flag and the two
\* pointers have passed their checks, every failure return of vos_threadCreate
\* (VOS_INIT_ERR for interval > 0, VOS_THREAD_ERR when CreateThread fails)
\* leaves *pThread NULL and spawns nothing, and *pThread is non-null exactly
\* when the call returns VOS_NO_ERR, when it is the handle of the new thread.
\* A policy other than VOS_THREAD_POLICY_OTHER only adds a warning to a
\* successful call: the failures are those of the interval and of
\* CreateThread, under either policy.  A priority of 0 or above 255 leaves
\* the native priority of the new thread untouched.
C37_OutputDiscipline ==
    [][(/\ ThreadStep("create") /\ vosThreadInitialised
        /\ ~tLast'.arg.pThreadNull /\ ~tLast'.arg.pNameNull) =>
          /\ tLast'.ret \in {"VOS_NO_ERR", "VOS_INIT_ERR", "VOS_THREAD_ERR"}
          /\ tLast'.ret = "VOS_INIT_ERR" <=> tLast'.arg.ival > 0
          /\ tLast'.out # NULL <=> tLast'.ret = "VOS_NO_ERR"
          /\ tLast'.ret # "VOS_NO_ERR" =>
                tLast'.out = NULL /\ NothingSpawned /\ tLast'.log = "error"
          /\ tLast'.ret = "VOS_NO_ERR" =>
                /\ tLast'.out \in Threads /\ tLast'.h = tLast'.out
                /\ thr[tLast'.out] = "none" /\ thr'[tLast'.out] = "running"
                /\ tLast'.log = "warning" <=> ~tLast'.arg.policyOther
                /\ tLast'.log \in {"none", "warning"}
                /\ tLast'.level = "untouched" <=> tLast'.prio \notin 1..MaxPriority
      ]_vars

\* C37 witness: a create with a policy other than the default and priority 256
\* succeeded: the handle is out, the thread runs, its native priority was not set
C37_Witness ==
    /\ tLast.op = "create" /\ tLast.ret = "VOS_NO_ERR"
    /\ ~tLast.arg.policyOther /\ tLast.log = "warning"
    /\ tLast.prio = MaxPriority + 1 /\ tLast.level = "untouched"
    /\ tLast.out \in Threads /\ thr[tLast.out] = "running"

=============================================================================
